---- MODULE Spec2Model ----
(***************************************************************************)
(* Record classification of the researchmap publication pipeline           *)
(* (scripts/update_counts.js and its earlier revisions).                   *)
(*                                                                         *)
(* JavaScript values are tagged records: k is the type tag.  Text is an    *)
(* ASCII string handled character by character (SubSeq).  The two kanji    *)
(* the code tests for are written with reserved non-word ASCII characters: *)
(* "#" stands for U+6709 (ari, "present") and "%" for U+7121 (nashi,       *)
(* "absent"); neither has an upper/lower case and neither is a \w          *)
(* character, exactly as the kanji.                                        *)
(***************************************************************************)
EXTENDS Integers, Sequences, FiniteSets, TLC

\* ------------------------------------------------------------------------
\* bounds
\* ------------------------------------------------------------------------
MaxPapers == 2

\* ------------------------------------------------------------------------
\* JavaScript values
\* ------------------------------------------------------------------------
Undef == [k |-> "undef"]
Null == [k |-> "null"]
Thrown == [k |-> "throw"]
JsBool(b) == [k |-> "bool", b |-> b]
JsNum(n) == [k |-> "num", n |-> n]
JsStr(s) == [k |-> "str", s |-> s]
JsObj(f) == [k |-> "obj", f |-> f]
JsArr(a) == [k |-> "arr", a |-> a]

JsTrue == JsBool(TRUE)
JsFalse == JsBool(FALSE)

IsNullish(v) == v.k \in {"undef", "null"}

\* ToBoolean of the language: "", 0, null, undefined and false are falsy.
ToBoolean(v) ==
  CASE v.k = "undef" -> FALSE
    [] v.k = "null" -> FALSE
    [] v.k = "bool" -> v.b
    [] v.k = "num" -> v.n # 0
    [] v.k = "str" -> v.s # ""
    [] OTHER -> TRUE

\* base?.name : undefined on a nullish or primitive base, never an exception.
OptMember(base, name) ==
  IF base.k = "throw" THEN Thrown
  ELSE IF base.k = "obj" /\ name \in DOMAIN base.f THEN base.f[name]
  ELSE Undef

\* base.name : a TypeError on a nullish base.
Member(base, name) ==
  IF base.k = "throw" \/ IsNullish(base) THEN Thrown
  ELSE OptMember(base, name)

\* a || b
JsOr(a, b) == IF a.k = "throw" THEN Thrown ELSE IF ToBoolean(a) THEN a ELSE b

\* a ?? b
Coalesce(a, b) == IF a.k = "throw" THEN Thrown ELSE IF IsNullish(a) THEN b ELSE a

\* ------------------------------------------------------------------------
\* text
\* ------------------------------------------------------------------------
UpperLetters == "ABCDEFGHIJKLMNOPQRSTUVWXYZ"
LowerLetters == "abcdefghijklmnopqrstuvwxyz"
Digits == "0123456789"

CharAt(s, i) == SubSeq(s, i, i)

CharIn(c, alphabet) == \E i \in 1..Len(alphabet) : CharAt(alphabet, i) = c

LowerChar(c) ==
  IF CharIn(c, UpperLetters)
  THEN CharAt(LowerLetters, CHOOSE i \in 1..Len(UpperLetters) : CharAt(UpperLetters, i) = c)
  ELSE c

RECURSIVE ToLowerCase(_)
ToLowerCase(s) ==
  IF s = "" THEN "" ELSE LowerChar(CharAt(s, 1)) \o ToLowerCase(SubSeq(s, 2, Len(s)))

IsSpace(c) == c = " " \/ c = "\t" \/ c = "\n"

RECURSIVE TrimStart(_)
TrimStart(s) ==
  IF s # "" /\ IsSpace(CharAt(s, 1)) THEN TrimStart(SubSeq(s, 2, Len(s))) ELSE s

RECURSIVE TrimEnd(_)
TrimEnd(s) ==
  IF s # "" /\ IsSpace(CharAt(s, Len(s))) THEN TrimEnd(SubSeq(s, 1, Len(s) - 1)) ELSE s

Trim(s) == TrimEnd(TrimStart(s))

\* s.includes(sub)
Includes(s, sub) ==
  \E i \in 1..(Len(s) - Len(sub) + 1) : SubSeq(s, i, i + Len(sub) - 1) = sub

NumberToString(n) == IF n \in 0..9 THEN CharAt(Digits, n + 1) ELSE "NaN"

RECURSIVE JoinComma(_)
\* String(v)
RECURSIVE JsString(_)
JsString(v) ==
  CASE v.k = "undef" -> "undefined"
    [] v.k = "null" -> "null"
    [] v.k = "bool" -> IF v.b THEN "true" ELSE "false"
    [] v.k = "num" -> NumberToString(v.n)
    [] v.k = "str" -> v.s
    [] v.k = "arr" -> JoinComma(v.a)
    [] OTHER -> "[object Object]"

\* Array.prototype.join(","), which String(array) uses: nullish elements give "".
JoinComma(a) ==
  IF a = <<>> THEN ""
  ELSE LET h == IF IsNullish(a[1]) THEN "" ELSE JsString(a[1])
       IN IF Len(a) = 1 THEN h ELSE h \o "," \o JoinComma(Tail(a))

IsThrown(v) == v.k = "throw"

\* ------------------------------------------------------------------------
\* scripts/update_counts.js: classification of published papers
\* ------------------------------------------------------------------------
pickPublishedPaperTypeLower(item) ==
  LET t == JsOr(JsOr(OptMember(item, "published_paper_type"),
                     OptMember(OptMember(item, "raw_type_fields"), "published_paper_type")),
                JsStr(""))
  IN IF IsThrown(t) THEN Thrown
     ELSE JsStr(Trim(ToLowerCase(JsString(JsOr(t, JsStr(""))))))

\* (1) book chapter: in_book
isBookChapter(item) ==
  LET t == pickPublishedPaperTypeLower(item)
  IN IF IsThrown(t) THEN Thrown ELSE JsBool(t.s = "in_book")

\* the referee lookup with plain member access: item.raw_type_fields.referee
isExplicitlyNonRefereedStrict(item) ==
  LET v == Coalesce(Member(item, "referee"),
                    Member(Member(item, "raw_type_fields"), "referee"))
  IN IF IsThrown(v) THEN Thrown
     ELSE IF v = JsTrue \/ v = JsStr("true") \/ v = JsNum(1) \/ v = JsStr("1") THEN JsFalse
     ELSE JsBool(v = JsFalse \/ v = JsStr("false") \/ v = JsNum(0) \/ v = JsStr("0"))

isExplicitlyNonRefereed(item) ==
  LET v == Coalesce(OptMember(item, "referee"),
                    OptMember(OptMember(item, "raw_type_fields"), "referee"))
      s == ToLowerCase(Trim(JsString(Coalesce(v, JsStr("")))))
  IN IF IsThrown(v) THEN Thrown
     ELSE IF v = JsTrue \/ v = JsStr("true") \/ v = JsNum(1) \/ v = JsStr("1") THEN JsFalse
     ELSE IF v = JsFalse \/ v = JsStr("false") \/ v = JsNum(0) \/ v = JsStr("0") THEN JsTrue
     ELSE IF s = "no" \/ s = "none" \/ s = "n" THEN JsTrue
     ELSE IF s = "yes" \/ s = "y" THEN JsFalse
     ELSE IF Includes(s, "%") THEN JsTrue
     ELSE IF Includes(s, "#") THEN JsFalse
     ELSE JsFalse

isTruthyStringsOnly(v) == v = JsStr("true") \/ v = JsStr("1")

isTruthy(v) == v = JsTrue \/ v = JsStr("true") \/ v = JsNum(1) \/ v = JsStr("1")

\* the review rule without the type alternative: non-refereed and invited only
isReviewArticleInvitedOnly(item) ==
  LET nr == isExplicitlyNonRefereed(item)
      invited == Coalesce(OptMember(item, "invited"),
                          OptMember(OptMember(item, "raw_type_fields"), "invited"))
  IN IF IsThrown(nr) THEN Thrown
     ELSE IF ~nr.b THEN JsFalse
     ELSE IF IsThrown(invited) THEN Thrown
     ELSE JsBool(isTruthy(invited))

\* (2) review articles: non-refereed and (invited, or type scientific_journal
\* or international_conference_proceedings)
isReviewArticle(item) ==
  LET nr == isExplicitlyNonRefereed(item)
      invited == Coalesce(OptMember(item, "invited"),
                          OptMember(OptMember(item, "raw_type_fields"), "invited"))
      t == pickPublishedPaperTypeLower(item)
  IN IF IsThrown(nr) THEN Thrown
     ELSE IF ~nr.b THEN JsFalse
     ELSE IF IsThrown(invited) THEN Thrown
     ELSE IF isTruthy(invited) THEN JsTrue
     ELSE IF IsThrown(t) THEN Thrown
     ELSE JsBool(t.s = "scientific_journal" \/ t.s = "international_conference_proceedings")

\* isJournal with the venue-name fallback of the earlier journal filters
isJournalOrNamedVenue(item) ==
  LET t == pickPublishedPaperTypeLower(item)
  IN IF IsThrown(t) THEN Thrown
     ELSE JsBool(Includes(t.s, "scientific_journal")
                 \/ ToBoolean(OptMember(item, "publication_name")))

\* journal papers (after excluding book/review)
isJournal(item) ==
  LET t == pickPublishedPaperTypeLower(item)
  IN IF IsThrown(t) THEN Thrown ELSE JsBool(Includes(t.s, "scientific_journal"))

\* conference proceedings (after excluding book/review/journal)
isConferenceProceedings(item) ==
  LET t == pickPublishedPaperTypeLower(item)
  IN IF IsThrown(t) THEN Thrown
     ELSE JsBool(\/ t.s = "international_conference_proceedings"
                 \/ Includes(t.s, "international_conference")
                 \/ Includes(t.s, "conference")
                 \/ Includes(t.s, "proceedings"))

\* ------------------------------------------------------------------------
\* text helpers shared by the revisions
\* ------------------------------------------------------------------------
RECURSIVE SkipSpaces(_)
SkipSpaces(s) == IF s # "" /\ IsSpace(CharAt(s, 1)) THEN SkipSpaces(SubSeq(s, 2, Len(s))) ELSE s

\* s.replace(/\s+/g, " ")
RECURSIVE CollapseSpaces(_)
CollapseSpaces(s) ==
  IF s = "" THEN ""
  ELSE IF IsSpace(CharAt(s, 1)) THEN " " \o CollapseSpaces(SkipSpaces(s))
  ELSE CharAt(s, 1) \o CollapseSpaces(SubSeq(s, 2, Len(s)))

\* String(s ?? "").replace(/\s+/g, " ").trim(), the same in every revision
normalizeSpaces(s) == Trim(CollapseSpaces(s))

IsWordChar(c) == CharIn(c, UpperLetters) \/ CharIn(c, LowerLetters) \/ CharIn(c, Digits) \/ c = "_"

\* /\bw\b/.test(s) for a pattern w that starts and ends with a word character
MatchesWord(s, w) ==
  \E i \in 1..(Len(s) - Len(w) + 1) :
    /\ SubSeq(s, i, i + Len(w) - 1) = w
    /\ (i = 1 \/ ~IsWordChar(CharAt(s, i - 1)))
    /\ (i + Len(w) - 1 = Len(s) \/ ~IsWordChar(CharAt(s, i + Len(w))))

\* parts.filter(Boolean).join(sep) over a sequence of strings
RECURSIVE JoinNonEmpty(_, _)
JoinNonEmpty(parts, sep) ==
  IF parts = <<>> THEN ""
  ELSE LET rest == JoinNonEmpty(Tail(parts), sep)
       IN IF Head(parts) = "" THEN rest
          ELSE IF rest = "" THEN Head(parts)
          ELSE Head(parts) \o sep \o rest

\* parts.join(sep) over a sequence of strings
RECURSIVE JoinAll(_, _)
JoinAll(parts, sep) ==
  IF parts = <<>> THEN ""
  ELSE IF Len(parts) = 1 THEN Head(parts)
  ELSE Head(parts) \o sep \o JoinAll(Tail(parts), sep)

\* /(a|b|...)/.test(s)
MatchesAny(s, words) == \E w \in words : Includes(s, w)

\* ------------------------------------------------------------------------
\* revision with commentary articles (part_001): text extraction and flags
\* ------------------------------------------------------------------------
RECURSIVE P1_pickLangText(_)
P1_pickLangText(v) ==
  IF IsNullish(v) THEN ""
  ELSE IF v.k \in {"str", "num"} THEN JsString(v)
  ELSE IF v.k = "arr"
    THEN JoinNonEmpty([i \in 1..Len(v.a) |-> P1_pickLangText(v.a[i])], " ")
  ELSE IF v.k = "obj"
    THEN IF ToBoolean(OptMember(v, "name")) THEN P1_pickLangText(OptMember(v, "name"))
         ELSE IF ToBoolean(OptMember(v, "full_name"))
           THEN P1_pickLangText(OptMember(v, "full_name"))
         ELSE IF ToBoolean(OptMember(v, "display_name"))
           THEN P1_pickLangText(OptMember(v, "display_name"))
         ELSE LET cand ==
                    Coalesce(Coalesce(Coalesce(Coalesce(Coalesce(Coalesce(
                      OptMember(v, "en"), OptMember(v, "ja")), OptMember(v, "rm:en")),
                      OptMember(v, "rm:ja")), OptMember(v, "value")), OptMember(v, "text")),
                      JsStr(""))
              IN IF ToBoolean(cand) THEN P1_pickLangText(cand) ELSE ""
  ELSE ""

RECURSIVE P1_firstNonEmpty(_)
P1_firstNonEmpty(vals) ==
  IF vals = <<>> THEN ""
  ELSE LET t == normalizeSpaces(P1_pickLangText(Head(vals)))
       IN IF t # "" THEN t ELSE P1_firstNonEmpty(Tail(vals))

P1_truthy(v) ==
  LET s == Trim(ToLowerCase(P1_pickLangText(v)))
  IN s = "true" \/ s = "1" \/ s = "yes"

P1_falsy(v) ==
  LET s == Trim(ToLowerCase(P1_pickLangText(v)))
  IN s = "false" \/ s = "0" \/ s = "no"

P1_toTitle(item) ==
  P1_firstNonEmpty(<<OptMember(item, "title"), OptMember(item, "paper_title"),
                     OptMember(item, "published_paper_title"), OptMember(item, "rm:title")>>)

P1_toJournalName(item) ==
  P1_firstNonEmpty(<<OptMember(item, "journal"), OptMember(item, "journal_name"),
                     OptMember(item, "publication_name"), OptMember(item, "container_title"),
                     OptMember(item, "rm:journal")>>)

P1_badPatterns ==
  <<"proceedings", "proceedings of", "annual international conference",
    "international conference", "conference", "symposium", "workshop", "meeting", "congress">>

P1_typeStr(item) ==
  LET fields == <<OptMember(item, "published_paper_type"), OptMember(item, "paper_type"),
                  OptMember(item, "type"), OptMember(item, "category"),
                  OptMember(OptMember(item, "raw_type_fields"), "published_paper_type")>>
  IN JoinNonEmpty([i \in 1..Len(fields) |-> ToLowerCase(P1_pickLangText(fields[i]))], " | ")

P1_journalHint(item) ==
  LET fields == <<OptMember(item, "is_international_journal"),
                  OptMember(item, "international_journal"),
                  OptMember(OptMember(item, "raw_type_fields"), "is_international_journal")>>
  IN JoinAll([i \in 1..Len(fields) |-> ToLowerCase(P1_pickLangText(fields[i]))], " ")

isJournalOnly(item) ==
  LET j == ToLowerCase(P1_toJournalName(item))
      t == ToLowerCase(P1_toTitle(item))
      hay == j \o " | " \o t
      typeStr == P1_typeStr(item)
      journalHint == P1_journalHint(item)
  IN IF \E i \in 1..Len(P1_badPatterns) : MatchesWord(hay, P1_badPatterns[i]) THEN FALSE
     ELSE IF MatchesAny(typeStr, {"conference", "proceeding", "proceedings", "symposium",
                                  "workshop"}) THEN FALSE
     ELSE IF MatchesAny(typeStr, {"book", "chapter", "in_book"}) THEN FALSE
     ELSE IF Includes(typeStr, "journal") THEN TRUE
     ELSE IF Includes(journalHint, "true") \/ Includes(journalHint, "1") THEN TRUE
     ELSE P1_toJournalName(item) # ""

\* three-valued: true, false, or null when unknown
isRefereed(item) ==
  LET v == JsStr(P1_firstNonEmpty(
             <<OptMember(item, "referee"),
               OptMember(OptMember(item, "raw_type_fields"), "referee"),
               OptMember(item, "is_refereed"),
               OptMember(OptMember(item, "raw_type_fields"), "is_refereed")>>))
  IN IF P1_truthy(v) THEN JsTrue
     ELSE IF P1_falsy(v) THEN JsFalse
     ELSE Null

\* ------------------------------------------------------------------------
\* revision with all authors (part_002): journal filter
\* ------------------------------------------------------------------------
P2_LangField(v, name) ==
  ToBoolean(OptMember(v, name)) /\ OptMember(v, name).k # "arr"

RECURSIVE P2_pickLangText(_)
P2_pickLangText(v) ==
  IF IsNullish(v) THEN ""
  ELSE IF v.k \in {"str", "num"} THEN JsString(v)
  ELSE IF v.k = "arr" THEN ""
  ELSE IF v.k = "obj"
    THEN IF P2_LangField(v, "ja") THEN JsString(OptMember(v, "ja"))
         ELSE IF P2_LangField(v, "en") THEN JsString(OptMember(v, "en"))
         ELSE IF P2_LangField(v, "rm:ja") THEN JsString(OptMember(v, "rm:ja"))
         ELSE IF P2_LangField(v, "rm:en") THEN JsString(OptMember(v, "rm:en"))
         ELSE IF ToBoolean(OptMember(v, "name")) THEN P2_pickLangText(OptMember(v, "name"))
         ELSE IF ToBoolean(OptMember(v, "full_name"))
           THEN P2_pickLangText(OptMember(v, "full_name"))
         ELSE IF ToBoolean(OptMember(v, "display_name"))
           THEN P2_pickLangText(OptMember(v, "display_name"))
         ELSE ""
  ELSE ""

RECURSIVE P2_firstNonEmpty(_)
P2_firstNonEmpty(vals) ==
  IF vals = <<>> THEN ""
  ELSE LET t == normalizeSpaces(P2_pickLangText(Head(vals)))
       IN IF t # "" THEN t ELSE P2_firstNonEmpty(Tail(vals))

P2_toJournalName(item) ==
  P2_firstNonEmpty(<<OptMember(item, "journal"), OptMember(item, "journal_title"),
                     OptMember(item, "journal_name"), OptMember(item, "publication_name"),
                     OptMember(item, "rm:journal"), OptMember(item, "rm:journal_title")>>)

P2_typeStr(item) ==
  LET fields == <<OptMember(item, "published_paper_type"), OptMember(item, "paper_type"),
                  OptMember(item, "type"),
                  OptMember(OptMember(item, "raw_type_fields"), "published_paper_type")>>
  IN normalizeSpaces(
       JoinAll([i \in 1..Len(fields) |-> ToLowerCase(P2_pickLangText(fields[i]))], " "))

P2_journalHint(item) ==
  LET fields == <<OptMember(item, "is_international_journal"),
                  OptMember(item, "international_journal"),
                  OptMember(OptMember(item, "raw_type_fields"), "is_international_journal"),
                  OptMember(item, "referee"),
                  OptMember(OptMember(item, "raw_type_fields"), "referee")>>
  IN JoinAll([i \in 1..Len(fields) |-> ToLowerCase(P2_pickLangText(fields[i]))], " ")

isJournalPaper(item) ==
  LET typeStr == P2_typeStr(item)
      journalHint == P2_journalHint(item)
  IN IF MatchesAny(typeStr, {"conference", "proceedings"}) THEN FALSE
     ELSE IF MatchesAny(typeStr, {"book", "chapter", "in_book"}) THEN FALSE
     ELSE IF Includes(typeStr, "journal") THEN TRUE
     ELSE IF Includes(journalHint, "true") \/ Includes(journalHint, "1") THEN TRUE
     ELSE P2_toJournalName(item) # ""

\* ------------------------------------------------------------------------
\* scripts/update_counts.js: published-paper records the API can return
\* ------------------------------------------------------------------------
VenueProceedings == JsStr("Proceedings of the 2021 International Conference on X")
VenueJournal == JsStr("IEEE Transactions on Fuzzy Systems")

PaperTypes ==
  { Undef, JsStr("in_book"), JsStr("scientific_journal"),
    JsStr("international_conference_proceedings"), JsStr(" In_Book "),
    JsStr("journal"), JsStr("symposium"), JsStr("scientific_journal_letter"),
    JsObj([ja |-> JsStr("in_book"), en |-> JsStr("in_book")]) }

RefereeFlags == { Undef, JsTrue, JsFalse, JsStr("false"), JsStr("%") }

InvitedFlags == { Undef, JsTrue, JsFalse, JsStr("true") }

RawTypeFields ==
  { Undef, Null,
    JsObj([published_paper_type |-> JsStr("in_book"), referee |-> JsFalse, invited |-> JsTrue]),
    JsObj([published_paper_type |-> JsStr("scientific_journal"), referee |-> JsFalse,
           invited |-> Undef]),
    JsObj([published_paper_type |-> JsStr("international_conference_proceedings"),
           referee |-> Undef, invited |-> JsTrue]) }

Venues == { Undef, VenueProceedings, VenueJournal }

Paper(t, r, i, raw, v) ==
  JsObj([published_paper_type |-> t, referee |-> r, invited |-> i,
         raw_type_fields |-> raw, publication_name |-> v])

\* every shape, one record at a time
PaperItems ==
  { Paper(t, r, i, raw, v) :
      t \in PaperTypes, r \in RefereeFlags, i \in InvitedFlags,
      raw \in RawTypeFields, v \in Venues }

EmptyPaper == Paper(Undef, Undef, Undef, Undef, Undef)

\* the records that lists of several are built from: one per bucket, the
\* record without fields, and a null entry of the items array
CorePaperItems ==
  { Null, EmptyPaper,
    Paper(JsStr("in_book"), JsFalse, JsTrue, Undef, VenueJournal),
    Paper(JsStr("scientific_journal"), JsFalse, JsTrue, Undef, VenueJournal),
    Paper(JsStr("scientific_journal"), JsTrue, Undef, Undef, VenueJournal),
    Paper(JsStr("scientific_journal"), JsFalse, Undef, Undef, VenueJournal),
    Paper(JsStr("international_conference_proceedings"), JsTrue, Undef, Undef, VenueProceedings),
    Paper(JsStr("symposium"), Undef, Undef, Undef, VenueProceedings) }

RECURSIVE SeqsUpTo(_, _)
SeqsUpTo(S, n) ==
  IF n = 0 THEN { <<>> }
  ELSE LET shorter == SeqsUpTo(S, n - 1)
       IN shorter \cup { Append(q, x) : q \in { r \in shorter : Len(r) = n - 1 }, x \in S }

PaperLists == { <<x>> : x \in PaperItems } \cup SeqsUpTo(CorePaperItems, MaxPapers)

\* ------------------------------------------------------------------------
\* scripts/update_counts.js: main
\* ------------------------------------------------------------------------
VARIABLES
  pc,            \* where the running script is
  failure,       \* the exception main was rejected with, "none" if none
  allPapers,     \* update_counts.js: the fetched published papers
  bookRaw, reviewRaw, journalRaw, confRaw,
  counts,        \* the content of counts.json
  rec,           \* the record a filter or flag parser is applied to
  verdict,       \* what the filters and parsers returned for rec
  published,     \* part_003: the fetched published papers
  journalItems, intlConfItems, bookChapterItems,
  unclassified,  \* part_003: the entries of the unclassified report
  report,        \* part_003: the content of unclassified_papers.json
  arg,           \* the value or record a field extractor is applied to
  out,           \* what the field extractors returned for arg
  env,           \* update_counts.js: the permalink and what researchmap answers
  allPresentations,  \* update_counts.js: the fetched presentations
  invitedRaw, oralInternationalRaw, oralDomesticRaw,
  files,         \* the output files written so far, in the order of the writes
  exitStatus     \* the exit status of the process, "running" until it ends

runVars ==
  <<env, allPresentations, invitedRaw, oralInternationalRaw, oralDomesticRaw, files, exitStatus>>
mainVars == <<failure, allPapers, bookRaw, reviewRaw, journalRaw, confRaw, counts, runVars>>
pureVars == <<rec, verdict>>
reportVars == <<published, journalItems, intlConfItems, bookChapterItems, unclassified, report>>
textVars == <<arg, out>>
vars == <<pc, mainVars, pureVars, reportVars, textVars>>

\* Buckets hold indices into allPapers: the arrays of the code hold references
\* to the fetched objects, and two equal records are still two entries.
Indices(list) == [i \in 1..Len(list) |-> i]

IsTrue(v) == v = JsTrue

InBook(list, i) == IsTrue(isBookChapter(list[i]))
InReviewUnguarded(list, i) == IsTrue(isReviewArticle(list[i]))
InReview(list, i) == ~InBook(list, i) /\ IsTrue(isReviewArticle(list[i]))
InRemaining(list, i) == ~InBook(list, i) /\ ~IsTrue(isReviewArticle(list[i]))
InJournal(list, i) == InRemaining(list, i) /\ IsTrue(isJournal(list[i]))
InConf(list, i) ==
  InRemaining(list, i) /\ ~IsTrue(isJournal(list[i])) /\ IsTrue(isConferenceProceedings(list[i]))

\* a filter callback that throws rejects main
ClassifyThrows(list) ==
  \E i \in 1..Len(list) :
    \/ IsThrown(isBookChapter(list[i]))
    \/ IsThrown(isReviewArticle(list[i]))
    \/ IsThrown(isJournal(list[i]))
    \/ IsThrown(isConferenceProceedings(list[i]))

NoCounts ==
  [journal_paper_count |-> 0, conference_paper_count |-> 0, book_chapter_count |-> 0,
   review_article_count |-> 0, papers_total |-> 0, unclassified_count |-> 0]

NoVerdict == [review |-> Undef, journalOnly |-> Undef, refereed |-> Undef, journalPaper |-> Undef]

NoReport == [unclassified_count |-> 0]

NoEnv == [permalink |-> "", published_papers |-> Undef, presentations |-> Undef]

IdleRun ==
  /\ env = NoEnv
  /\ allPresentations = <<>>
  /\ invitedRaw = <<>>
  /\ oralInternationalRaw = <<>>
  /\ oralDomesticRaw = <<>>
  /\ files = <<>>
  /\ exitStatus = "running"

IdleMain ==
  /\ IdleRun
  /\ failure = "none"
  /\ allPapers = <<>>
  /\ bookRaw = <<>>
  /\ reviewRaw = <<>>
  /\ journalRaw = <<>>
  /\ confRaw = <<>>
  /\ counts = NoCounts

IdlePure == rec = Undef /\ verdict = NoVerdict

IdleText == arg = Undef /\ out = Undef

IdleReport ==
  /\ published = <<>>
  /\ journalItems = <<>>
  /\ intlConfItems = <<>>
  /\ bookChapterItems = <<>>
  /\ unclassified = <<>>
  /\ report = NoReport

InitMain ==
  /\ pc = "start"
  /\ IdleRun
  /\ failure = "none"
  /\ allPapers = <<>>
  /\ bookRaw = <<>>
  /\ reviewRaw = <<>>
  /\ journalRaw = <<>>
  /\ confRaw = <<>>
  /\ counts = NoCounts

Fetch ==
  /\ pc = "start"
  /\ \E list \in PaperLists : allPapers' = list
  /\ pc' = "fetched"
  /\ UNCHANGED <<failure, bookRaw, reviewRaw, journalRaw, confRaw, counts>>
  /\ UNCHANGED <<pureVars, reportVars>>
  /\ UNCHANGED <<textVars, runVars>>

Classify ==
  /\ pc = "fetched"
  /\ IF ClassifyThrows(allPapers)
     THEN /\ pc' = "failed"
          /\ failure' = "TypeError"
          /\ UNCHANGED <<bookRaw, reviewRaw, journalRaw, confRaw>>
     ELSE /\ pc' = "classified"
          /\ bookRaw' = SelectSeq(Indices(allPapers), LAMBDA i : InBook(allPapers, i))
          /\ reviewRaw' = SelectSeq(Indices(allPapers), LAMBDA i : InReview(allPapers, i))
          /\ journalRaw' = SelectSeq(Indices(allPapers), LAMBDA i : InJournal(allPapers, i))
          /\ confRaw' = SelectSeq(Indices(allPapers), LAMBDA i : InConf(allPapers, i))
          /\ UNCHANGED failure
  /\ UNCHANGED <<allPapers, counts>>
  /\ UNCHANGED <<pureVars, reportVars>>
  /\ UNCHANGED <<textVars, runVars>>

Count ==
  /\ pc = "classified"
  /\ counts' =
       [journal_paper_count |-> Len(journalRaw),
        conference_paper_count |-> Len(confRaw),
        book_chapter_count |-> Len(bookRaw),
        review_article_count |-> Len(reviewRaw),
        papers_total |-> Len(journalRaw) + Len(confRaw) + Len(bookRaw) + Len(reviewRaw),
        unclassified_count |->
          Len(allPapers) - Len(journalRaw) - Len(confRaw) - Len(bookRaw) - Len(reviewRaw)]
  /\ pc' = "counted"
  /\ UNCHANGED <<failure, allPapers, bookRaw, reviewRaw, journalRaw, confRaw>>
  /\ UNCHANGED <<pureVars, reportVars>>
  /\ UNCHANGED <<textVars, runVars>>

Init == InitMain /\ IdlePure /\ IdleReport /\ IdleText

Next == Fetch \/ Classify \/ Count

Spec == Init /\ [][Next]_vars

\* ------------------------------------------------------------------------
\* scripts/update_counts.js: the flag parsers of isReviewArticle, one record
\* at a time over every spelling of the two flags
\* ------------------------------------------------------------------------
TruthySpellings ==
  { JsTrue, JsStr("true"), JsStr("1"), JsStr("yes"), JsStr("#"),
    JsStr("TRUE"), JsStr(" true "), JsStr("Yes") }

FalsySpellings ==
  { JsFalse, JsStr("false"), JsStr("0"), JsStr("no"), JsStr("%"),
    JsStr("FALSE"), JsStr(" false "), JsStr("No") }

UnknownSpellings == { Undef, Null, JsStr(""), JsStr("unknown") }

OtherSpellings == UnknownSpellings \cup { JsNum(1), JsNum(0) }

FlagSpellings == TruthySpellings \cup FalsySpellings \cup OtherSpellings

FlagItems ==
  { JsObj([published_paper_type |-> t, referee |-> r, invited |-> i]) :
      t \in {Undef, JsStr("scientific_journal")}, r \in FlagSpellings, i \in FlagSpellings }

InitFlags ==
  /\ pc = "start"
  /\ rec \in FlagItems
  /\ verdict = NoVerdict
  /\ IdleMain
  /\ IdleReport
  /\ IdleText

ApplyIsReviewArticle ==
  /\ pc = "start"
  /\ verdict' = [verdict EXCEPT !.review = isReviewArticle(rec)]
  /\ pc' = "done"
  /\ UNCHANGED <<rec, mainVars, reportVars>>
  /\ UNCHANGED textVars

NextFlags == ApplyIsReviewArticle

SpecFlags == InitFlags /\ [][NextFlags]_vars

\* ------------------------------------------------------------------------
\* the journal filters and the referee parser of the earlier revisions
\* (part_001: isJournalOnly, isRefereed; part_002: isJournalPaper)
\* ------------------------------------------------------------------------
JournalNames ==
  { Undef, VenueJournal, VenueProceedings,
    JsStr("World Congress on Medical Physics"),
    JsObj([ja |-> JsStr("Fuzzy Gakkaishi"), en |-> JsStr("Journal of Fuzzy Theory")]) }

Titles == { Undef, JsStr("Fuzzy  clustering of MR images"), JsStr("Report of the annual meeting") }

TypeTexts ==
  { Undef, JsStr("scientific_journal"), JsStr("international_conference_proceedings"),
    JsStr("symposium"), JsStr("congress"), JsStr("meeting"), JsStr("research_institution") }

JournalFlags == { Undef, JsTrue, JsFalse, JsStr("true"), JsStr("false"), JsNum(1), JsNum(0) }

FilterItems ==
  { JsObj([journal |-> j, title |-> ti, published_paper_type |-> ty,
           is_international_journal |-> f, referee |-> Undef]) :
      j \in JournalNames, ti \in Titles, ty \in TypeTexts, f \in JournalFlags }

RefereeItems ==
  { JsObj([journal |-> j, title |-> Undef, published_paper_type |-> Undef,
           is_international_journal |-> Undef, referee |-> r]) :
      j \in {Undef, VenueJournal}, r \in FlagSpellings }

InitJournal ==
  /\ pc = "start"
  /\ rec \in FilterItems \cup RefereeItems \cup {Null}
  /\ verdict = NoVerdict
  /\ IdleMain
  /\ IdleReport
  /\ IdleText

ApplyIsJournalOnly ==
  /\ pc = "start"
  /\ verdict' = [verdict EXCEPT !.journalOnly = JsBool(isJournalOnly(rec))]
  /\ pc' = "filtered"
  /\ UNCHANGED <<rec, mainVars, reportVars>>
  /\ UNCHANGED textVars

ApplyIsRefereed ==
  /\ pc = "filtered"
  /\ verdict' = [verdict EXCEPT !.refereed = isRefereed(rec)]
  /\ pc' = "parsed"
  /\ UNCHANGED <<rec, mainVars, reportVars>>
  /\ UNCHANGED textVars

ApplyIsJournalPaper ==
  /\ pc = "parsed"
  /\ verdict' = [verdict EXCEPT !.journalPaper = JsBool(isJournalPaper(rec))]
  /\ pc' = "done"
  /\ UNCHANGED <<rec, mainVars, reportVars>>
  /\ UNCHANGED textVars

NextJournal == ApplyIsJournalOnly \/ ApplyIsRefereed \/ ApplyIsJournalPaper

SpecJournal == InitJournal /\ [][NextJournal]_vars

\* ------------------------------------------------------------------------
\* revision with the unclassified report (part_003)
\* ------------------------------------------------------------------------
classifyPublishedPaper(p) ==
  LET t == Coalesce(OptMember(p, "published_paper_type"), Null)
      low == ToLowerCase(t.s)
      isIntlFlag == Coalesce(OptMember(p, "is_international_conference"), Null)
  IN IF t = JsStr("scientific_journal") THEN "journal"
     ELSE IF t = JsStr("in_book") THEN "book_chapter"
     ELSE IF t.k = "str" /\ (Includes(low, "conference") \/ Includes(low, "proceeding"))
       THEN IF isIntlFlag = JsTrue THEN "intl_conf"
            ELSE IF Includes(low, "international") THEN "intl_conf"
            ELSE "other"
     ELSE "other"

\* hasSomeSignal with "and" for "or"
hasEverySignalMissing(p) ==
  /\ IsNullish(OptMember(p, "published_paper_type"))
  /\ IsNullish(OptMember(p, "is_international_journal"))
  /\ IsNullish(OptMember(p, "referee"))

hasSomeSignal(p) ==
  \/ IsNullish(OptMember(p, "published_paper_type"))
  \/ IsNullish(OptMember(p, "is_international_journal"))
  \/ IsNullish(OptMember(p, "referee"))

\* the entry main pushes to the report (year and title left out: copies of text)
UnclassifiedEntry(p) ==
  [id |-> JsOr(OptMember(p, "rm:id"), JsStr("")),
   raw_type_fields |->
     [published_paper_type |-> Coalesce(OptMember(p, "published_paper_type"), Null),
      is_international_journal |-> Coalesce(OptMember(p, "is_international_journal"), Null),
      referee |-> Coalesce(OptMember(p, "referee"), Null)]]

ReportTypes ==
  { Undef, Null, JsStr("scientific_journal"), JsStr("in_book"),
    JsStr("international_conference_proceedings"), JsStr("symposium_proceedings"),
    JsStr("research_institution"), JsObj([en |-> JsStr("scientific_journal")]) }

ReportPaper(t, c, j, r) ==
  JsObj([published_paper_type |-> t, is_international_conference |-> c,
         is_international_journal |-> j, referee |-> r])

ReportItems ==
  { ReportPaper(t, c, j, r) :
      t \in ReportTypes, c \in {Undef, JsTrue}, j \in {Undef, JsTrue, JsFalse},
      r \in {Undef, JsTrue, JsFalse} }

CoreReportItems ==
  { Null,
    ReportPaper(Undef, Undef, Undef, Undef),
    ReportPaper(JsStr("scientific_journal"), Undef, JsTrue, JsTrue),
    ReportPaper(JsStr("in_book"), Undef, Undef, JsFalse),
    ReportPaper(JsStr("international_conference_proceedings"), Undef, JsFalse, JsTrue),
    ReportPaper(JsStr("symposium_proceedings"), Undef, Undef, JsTrue),
    ReportPaper(JsStr("research_institution"), Undef, JsFalse, JsFalse) }

ReportLists == { <<x>> : x \in ReportItems } \cup SeqsUpTo(CoreReportItems, MaxPapers)

OfKind(list, kind) ==
  SelectSeq(Indices(list), LAMBDA i : classifyPublishedPaper(list[i]) = kind)

Reported(list) ==
  LET other == SelectSeq(Indices(list),
                 LAMBDA i : /\ classifyPublishedPaper(list[i]) \notin
                                 {"journal", "intl_conf", "book_chapter"}
                            /\ hasSomeSignal(list[i]))
  IN [n \in 1..Len(other) |-> UnclassifiedEntry(list[other[n]])]

InitReport ==
  /\ pc = "start"
  /\ IdleReport
  /\ IdleMain
  /\ IdlePure
  /\ IdleText

P3_Fetch ==
  /\ pc = "start"
  /\ \E list \in ReportLists : published' = list
  /\ pc' = "fetched"
  /\ UNCHANGED <<journalItems, intlConfItems, bookChapterItems, unclassified, report>>
  /\ UNCHANGED <<mainVars, pureVars>>
  /\ UNCHANGED textVars

P3_Classify ==
  /\ pc = "fetched"
  /\ journalItems' = OfKind(published, "journal")
  /\ intlConfItems' = OfKind(published, "intl_conf")
  /\ bookChapterItems' = OfKind(published, "book_chapter")
  /\ unclassified' = Reported(published)
  /\ pc' = "classified"
  /\ UNCHANGED <<published, report>>
  /\ UNCHANGED <<mainVars, pureVars>>
  /\ UNCHANGED textVars

P3_Write ==
  /\ pc = "classified"
  /\ counts' = [papers_total |-> Len(published), journal |-> Len(journalItems),
                intl_conf |-> Len(intlConfItems), book_chapters |-> Len(bookChapterItems)]
  /\ report' = [unclassified_count |-> Len(unclassified)]
  /\ pc' = "written"
  /\ UNCHANGED <<published, journalItems, intlConfItems, bookChapterItems, unclassified>>
  /\ UNCHANGED <<failure, allPapers, bookRaw, reviewRaw, journalRaw, confRaw, runVars>>
  /\ UNCHANGED pureVars
  /\ UNCHANGED textVars

NextReport == P3_Fetch \/ P3_Classify \/ P3_Write

SpecReport == InitReport /\ [][NextReport]_vars

\* ------------------------------------------------------------------------
\* properties of the published-paper classification (scripts/update_counts.js)
\* ------------------------------------------------------------------------
Range(q) == { q[i] : i \in DOMAIN q }

Classified == pc \in {"classified", "counted"}

BucketsOf(i) ==
  { b \in {"book", "review", "journal", "conf"} :
      \/ b = "book" /\ i \in Range(bookRaw)
      \/ b = "review" /\ i \in Range(reviewRaw)
      \/ b = "journal" /\ i \in Range(journalRaw)
      \/ b = "conf" /\ i \in Range(confRaw) }

NoDuplicates(q) == Cardinality(Range(q)) = Len(q)

TypeIs(item, ty) == pickPublishedPaperTypeLower(item) = JsStr(ty)

TypeContains(item, word) ==
  LET t == pickPublishedPaperTypeLower(item) IN ~IsThrown(t) /\ Includes(t.s, word)

FlagOf(item, name) ==
  LET top == OptMember(item, name)
  IN IF IsNullish(top) THEN OptMember(OptMember(item, "raw_type_fields"), name) ELSE top

ConferenceWords == {"conference", "proceedings", "symposium", "workshop", "congress", "meeting"}

ConferencePattern(text) == \E w \in ConferenceWords : Includes(ToLowerCase(text), w)

VenueText(item) ==
  LET v == OptMember(item, "publication_name") IN IF v.k = "str" THEN v.s ELSE ""

\* C1: every record of the fetched list lands in exactly one of bookRaw,
\* reviewRaw, journalRaw, confRaw or the remainder that unclassified_count
\* counts: the four buckets are pairwise disjoint, hold no record twice, and
\* no classification predicate throws.
C1_ExactlyOneBucket ==
  /\ failure # "TypeError"
  /\ Classified =>
       /\ \A i \in 1..Len(allPapers) : Cardinality(BucketsOf(i)) <= 1
       /\ NoDuplicates(bookRaw) /\ NoDuplicates(reviewRaw)
       /\ NoDuplicates(journalRaw) /\ NoDuplicates(confRaw)
  /\ pc = "counted" =>
       counts.unclassified_count =
         Cardinality({ i \in 1..Len(allPapers) : BucketsOf(i) = {} })

C1_Witness ==
  /\ pc = "counted"
  /\ Len(allPapers) = MaxPapers
  /\ \E i, j \in 1..Len(allPapers) :
       /\ allPapers[i] = EmptyPaper
       /\ BucketsOf(i) = {}
       /\ BucketsOf(j) = {"review"}
  /\ counts.unclassified_count = 1

\* C2: a record whose published_paper_type is "in_book" is in bookRaw and in
\* no other bucket, whatever its other fields hold.
C2_InBookIsBookChapter ==
  Classified =>
    \A i \in 1..Len(allPapers) :
      OptMember(allPapers[i], "published_paper_type") = JsStr("in_book")
        => BucketsOf(i) = {"book"}

C2_Witness ==
  /\ Classified
  /\ \E i \in 1..Len(allPapers) :
       /\ OptMember(allPapers[i], "published_paper_type") = JsStr("in_book")
       /\ OptMember(allPapers[i], "referee") = JsFalse
       /\ OptMember(allPapers[i], "invited") = JsTrue
       /\ OptMember(allPapers[i], "publication_name") = VenueProceedings
       /\ i \in Range(bookRaw)

\* C3: a record that is not in_book and has referee=false and invited=true is
\* a review article and not a journal paper, also when its type is
\* scientific_journal.
C3_NonRefereedInvitedIsReview ==
  Classified =>
    \A i \in 1..Len(allPapers) :
      ( /\ ~TypeIs(allPapers[i], "in_book")
        /\ OptMember(allPapers[i], "referee") = JsFalse
        /\ OptMember(allPapers[i], "invited") = JsTrue )
        => BucketsOf(i) = {"review"}

C3_Witness ==
  /\ Classified
  /\ \E i \in 1..Len(allPapers) :
       /\ OptMember(allPapers[i], "published_paper_type") = JsStr("scientific_journal")
       /\ OptMember(allPapers[i], "referee") = JsFalse
       /\ OptMember(allPapers[i], "invited") = JsTrue
       /\ i \in Range(reviewRaw)
       /\ i \notin Range(journalRaw)

NotFlaggedInvited(item) ==
  FlagOf(item, "invited") \notin {JsTrue, JsStr("true"), JsNum(1), JsStr("1")}

FlaggedNonRefereed(item) == FlagOf(item, "referee") \in {JsFalse, JsStr("false"), JsStr("%")}

NoConferencePattern(item) ==
  /\ \A w \in ConferenceWords : ~TypeContains(item, w)
  /\ ~ConferencePattern(VenueText(item))

\* C4 as stated: a record that is not in_book, is not flagged invited, matches
\* no conference pattern and whose type text contains "journal" is a journal
\* paper, whether or not it is flagged non-refereed.
C4_JournalTypeIsJournal ==
  Classified =>
    \A i \in 1..Len(allPapers) :
      ( /\ ~TypeIs(allPapers[i], "in_book")
        /\ NotFlaggedInvited(allPapers[i])
        /\ NoConferencePattern(allPapers[i])
        /\ TypeContains(allPapers[i], "journal") )
        => BucketsOf(i) = {"journal"}

\* C4 amended: such a record whose type text contains "scientific_journal" is
\* a journal paper when it is not flagged non-refereed or its type is not
\* exactly scientific_journal; flagged non-refereed with the type exactly
\* scientific_journal it is a review article, invited or not.
C4_JournalUnlessNonRefereed ==
  Classified =>
    \A i \in 1..Len(allPapers) :
      ( /\ ~TypeIs(allPapers[i], "in_book")
        /\ NotFlaggedInvited(allPapers[i])
        /\ NoConferencePattern(allPapers[i])
        /\ TypeContains(allPapers[i], "scientific_journal") )
        => IF FlaggedNonRefereed(allPapers[i]) /\ TypeIs(allPapers[i], "scientific_journal")
           THEN BucketsOf(i) = {"review"}
           ELSE BucketsOf(i) = {"journal"}

C4_Witness ==
  /\ Classified
  /\ \E i, j \in 1..Len(allPapers) :
       /\ TypeIs(allPapers[i], "scientific_journal")
       /\ NotFlaggedInvited(allPapers[i])
       /\ FlaggedNonRefereed(allPapers[i])
       /\ i \in Range(reviewRaw)
       /\ TypeIs(allPapers[j], "scientific_journal")
       /\ ~FlaggedNonRefereed(allPapers[j])
       /\ j \in Range(journalRaw)

NoTypeField(item) ==
  /\ item.k = "obj"
  /\ OptMember(item, "published_paper_type") = Undef
  /\ OptMember(OptMember(item, "raw_type_fields"), "published_paper_type") = Undef

\* C5 as stated: a record with no explicit type field whose venue text matches
\* a conference pattern is placed in confRaw and never in journalRaw.
C5_ConferenceVenueIsConference ==
  Classified =>
    \A i \in 1..Len(allPapers) :
      (NoTypeField(allPapers[i]) /\ ConferencePattern(VenueText(allPapers[i])))
        => BucketsOf(i) = {"conf"}

\* C5 amended: such a record is never a journal paper although its venue name
\* is resolvable, and it is not placed in confRaw either: the type text alone
\* decides, so it is a review article when flagged non-refereed and invited
\* and is left unclassified otherwise.
C5_ConferenceVenueWithoutTypeNeverJournal ==
  Classified =>
    \A i \in 1..Len(allPapers) :
      (NoTypeField(allPapers[i]) /\ ConferencePattern(VenueText(allPapers[i])))
        => BucketsOf(i) =
             IF FlaggedNonRefereed(allPapers[i]) /\ ~NotFlaggedInvited(allPapers[i])
             THEN {"review"} ELSE {}

C5_Witness ==
  /\ pc = "counted"
  /\ \E i \in 1..Len(allPapers) :
       /\ NoTypeField(allPapers[i])
       /\ OptMember(allPapers[i], "publication_name") = VenueProceedings
       /\ BucketsOf(i) = {}
  /\ counts.unclassified_count >= 1

\* ------------------------------------------------------------------------
\* properties of the journal filters and flag parsers
\* ------------------------------------------------------------------------
PlainText(v) == IF v.k = "str" THEN v.s ELSE ""

HasConferenceText(r) ==
  \/ ConferencePattern(PlainText(OptMember(r, "published_paper_type")))
  \/ ConferencePattern(PlainText(OptMember(r, "journal")))
  \/ ConferencePattern(PlainText(OptMember(r, "title")))

\* C6: isJournalOnly returns false for every record whose type text, journal
\* name or title carries one of the words conference, proceedings, symposium,
\* workshop, congress, meeting, whatever the journal flags and the journal
\* name are.
C6_ConferenceTextIsNeverJournal ==
  verdict.journalOnly # Undef =>
    (HasConferenceText(rec) => verdict.journalOnly = JsFalse)

\* C7 as stated: every record that is neither journal, international
\* conference nor book chapter is in the unclassified report, so
\* unclassified_count = papers_total - journal - intl_conf - book_chapters.
C7_EveryOtherRecordIsReported ==
  pc = "written" =>
    report.unclassified_count =
      counts.papers_total - counts.journal - counts.intl_conf - counts.book_chapters

ReportBucketsOf(i) ==
  { b \in {"journal", "intl_conf", "book_chapter"} :
      \/ b = "journal" /\ i \in Range(journalItems)
      \/ b = "intl_conf" /\ i \in Range(intlConfItems)
      \/ b = "book_chapter" /\ i \in Range(bookChapterItems) }

LacksTypeField(p) ==
  \E name \in {"published_paper_type", "is_international_journal", "referee"} :
    OptMember(p, name) \in {Undef, Null}

\* C7 amended: a record that is neither journal, international conference nor
\* book chapter is in the unclassified report exactly when its
\* published_paper_type, is_international_journal or referee field is missing
\* or null; the others are left out, so unclassified_count is the number of
\* such records and at most papers_total - journal - intl_conf - book_chapters.
C7_OtherRecordsLackingAFieldAreReported ==
  pc = "written" =>
    /\ report.unclassified_count =
         Cardinality({ i \in 1..Len(published) :
                         ReportBucketsOf(i) = {} /\ LacksTypeField(published[i]) })
    /\ report.unclassified_count <=
         counts.papers_total - counts.journal - counts.intl_conf - counts.book_chapters
    /\ \A i \in 1..Len(published) : Cardinality(ReportBucketsOf(i)) <= 1

C7_Witness ==
  /\ pc = "written"
  /\ Len(published) = MaxPapers
  /\ \E i, j \in 1..Len(published) :
       /\ ReportBucketsOf(i) = {} /\ ~LacksTypeField(published[i])
       /\ ReportBucketsOf(j) = {} /\ LacksTypeField(published[j])
  /\ report.unclassified_count = 1

\* C8: isReviewArticle reads the referee and invited flags alike in every
\* listed spelling, whatever the letter case and the surrounding whitespace:
\* a falsy referee with a truthy invited is a review article, a truthy referee
\* never is, and a falsy invited does not make one.
C8_FlagSpellingsParsedAlike ==
  pc = "done" /\ verdict.review # Undef =>
    LET r == OptMember(rec, "referee")
        i == OptMember(rec, "invited")
    IN /\ (r \in FalsySpellings /\ i \in TruthySpellings) => verdict.review = JsTrue
       /\ r \in TruthySpellings => verdict.review = JsFalse
       /\ (i \in FalsySpellings /\ OptMember(rec, "published_paper_type") = Undef)
            => verdict.review = JsFalse

\* C9: isRefereed returns true for every truthy spelling of the referee field
\* and false for every falsy one, native booleans included, and null exactly
\* when the field is missing or holds an unrecognized value.
C9_RefereeIsThreeValued ==
  verdict.refereed # Undef =>
    LET r == OptMember(rec, "referee")
    IN /\ r \in TruthySpellings => verdict.refereed = JsTrue
       /\ r \in FalsySpellings => verdict.refereed = JsFalse
       /\ r \in UnknownSpellings => verdict.refereed = Null
       /\ verdict.refereed = Null => r \in UnknownSpellings

ExplicitlyFalse(v) == v \in FalsySpellings \cup { JsNum(0) }

\* C10: the last-resort rule of the journal filters (a resolvable journal name
\* alone) applies only when the flag is unknown: a record without journal type
\* text whose flag is explicitly false is no journal paper for isJournalOnly
\* nor for isJournalPaper.
C10_NameAloneOnlyWhenFlagUnknown ==
  pc = "done" /\ verdict.journalPaper # Undef =>
    ( ( /\ ~Includes(ToLowerCase(PlainText(OptMember(rec, "published_paper_type"))), "journal")
        /\ ~HasConferenceText(rec)
        /\ ExplicitlyFalse(OptMember(rec, "is_international_journal")) )
      => (verdict.journalOnly = JsFalse /\ verdict.journalPaper = JsFalse) )

\* ------------------------------------------------------------------------
\* scripts/update_counts.js: text extraction (pickLangText, firstNonEmpty)
\* ------------------------------------------------------------------------
\* v[name] && !Array.isArray(v[name])
LangField(v, name) == ToBoolean(OptMember(v, name)) /\ OptMember(v, name).k # "arr"

RECURSIVE pickLangText(_)
pickLangText(v) ==
  IF IsNullish(v) THEN ""
  ELSE IF v.k = "bool" THEN (IF v.b THEN "true" ELSE "false")
  ELSE IF v.k \in {"str", "num"} THEN JsString(v)
  ELSE IF v.k = "arr" THEN ""
  ELSE IF v.k = "obj"
    THEN IF LangField(v, "ja") THEN JsString(OptMember(v, "ja"))
         ELSE IF LangField(v, "en") THEN JsString(OptMember(v, "en"))
         ELSE IF LangField(v, "rm:ja") THEN JsString(OptMember(v, "rm:ja"))
         ELSE IF LangField(v, "rm:en") THEN JsString(OptMember(v, "rm:en"))
         ELSE IF ToBoolean(OptMember(v, "name")) THEN pickLangText(OptMember(v, "name"))
         ELSE IF ToBoolean(OptMember(v, "full_name"))
           THEN pickLangText(OptMember(v, "full_name"))
         ELSE IF ToBoolean(OptMember(v, "display_name"))
           THEN pickLangText(OptMember(v, "display_name"))
         ELSE ""
  ELSE ""

\* firstNonEmpty(...vals) over the sequence of its arguments
RECURSIVE firstNonEmpty(_)
firstNonEmpty(vals) ==
  IF vals = <<>> THEN ""
  ELSE LET t == normalizeSpaces(pickLangText(Head(vals)))
       IN IF t # "" THEN t ELSE firstNonEmpty(Tail(vals))

\* values of every shape a field of a record can have
TextLeaves ==
  { JsStr("Syoji  Kobashi"), JsStr(""), JsNum(7), JsTrue, Null,
    JsArr(<<JsStr("Kobashi")>>), JsArr(<<>>) }

TextKeys == {"ja", "en", "rm:en", "name", "full_name", "display_name"}

Wrap(key, v) == JsObj(key :> v)

TextObjects1 == { Wrap(key, v) : key \in TextKeys, v \in TextLeaves }

TextObjects2 ==
  { Wrap(key, v) : key \in TextKeys, v \in TextObjects1 }
    \cup { JsObj([ja |-> JsArr(<<JsStr("Kobashi")>>), en |-> v]) : v \in TextObjects1 }

TextValues == {Undef} \cup TextLeaves \cup TextObjects1 \cup TextObjects2

InitText ==
  /\ pc = "start"
  /\ arg \in TextValues
  /\ out = Undef
  /\ IdleMain
  /\ IdlePure
  /\ IdleReport

ApplyPickLangText ==
  /\ pc = "start"
  /\ out' = [picked |-> pickLangText(arg), first |-> ""]
  /\ pc' = "picked"
  /\ UNCHANGED <<arg, mainVars, pureVars, reportVars>>

ApplyFirstNonEmpty ==
  /\ pc = "picked"
  /\ out' = [out EXCEPT !.first = firstNonEmpty(<<Undef, arg, JsStr("fallback")>>)]
  /\ pc' = "done"
  /\ UNCHANGED <<arg, mainVars, pureVars, reportVars>>

NextText == ApplyPickLangText \/ ApplyFirstNonEmpty

SpecText == InitText /\ [][NextText]_vars

ObjectArtifact == "[object Object]"

\* C11: whatever the shape of the value (string, number, boolean, array, or an
\* object whose language and name properties are strings, arrays or nested
\* objects), pickLangText and firstNonEmpty never return text that holds the
\* stringified-object artifact "[object Object]".
C11_NeverAnObjectArtifact ==
  pc \in {"picked", "done"} =>
    /\ ~Includes(out.picked, ObjectArtifact)
    /\ ~Includes(out.first, ObjectArtifact)

\* ------------------------------------------------------------------------
\* scripts/update_counts.js: one author name (formatOneAuthor)
\* ------------------------------------------------------------------------
MaxTokens == 3

UpperChar(c) ==
  IF CharIn(c, LowerLetters)
  THEN CharAt(UpperLetters, CHOOSE i \in 1..26 : CharAt(LowerLetters, i) = c)
  ELSE c

\* /[U+3040-U+30FF, U+3400-U+9FFF]/.test(s): the kanji stand-ins are the
\* Japanese script characters of the model
JapaneseChars == "#%"

HasJapanese(s) == \E i \in 1..Len(s) : CharIn(CharAt(s, i), JapaneseChars)

\* /[A-Za-z]/.test(s)
HasAsciiLetter(s) ==
  \E i \in 1..Len(s) : CharIn(CharAt(s, i), UpperLetters) \/ CharIn(CharAt(s, i), LowerLetters)

\* s.split(/\s+/).filter(Boolean)
RECURSIVE SplitOnSpaces(_, _)
SplitOnSpaces(s, cur) ==
  IF s = "" THEN (IF cur = "" THEN <<>> ELSE <<cur>>)
  ELSE IF IsSpace(CharAt(s, 1))
    THEN (IF cur = "" THEN <<>> ELSE <<cur>>) \o SplitOnSpaces(SubSeq(s, 2, Len(s)), "")
  ELSE SplitOnSpaces(SubSeq(s, 2, Len(s)), cur \o CharAt(s, 1))

\* p[0].toUpperCase() + "."
Initial(p) == UpperChar(CharAt(p, 1)) \o "."

\* the name returned as it is whenever it holds Japanese script
formatOneAuthorAnyJapanese(name) ==
  LET s == Trim(JsString(JsOr(name, JsStr(""))))
      parts == SplitOnSpaces(s, "")
      initials == JoinAll([i \in 1..(Len(parts) - 1) |-> Initial(parts[i])], " ")
  IN IF s = "" THEN ""
     ELSE IF HasJapanese(s) THEN s
     ELSE IF Len(parts) = 1 THEN parts[1]
     ELSE (IF initials # "" THEN initials \o " " ELSE "") \o parts[Len(parts)]

\* only the first token reduced to its initial
formatOneAuthorFirstInitialOnly(name) ==
  LET s == Trim(JsString(JsOr(name, JsStr(""))))
      parts == SplitOnSpaces(s, "")
      initials == JoinAll([i \in 1..(Len(parts) - 1) |->
                             IF i = 1 THEN Initial(parts[i]) ELSE parts[i]], " ")
  IN IF s = "" THEN ""
     ELSE IF HasJapanese(s) /\ ~HasAsciiLetter(s) THEN s
     ELSE IF Len(parts) = 1 THEN parts[1]
     ELSE (IF initials # "" THEN initials \o " " ELSE "") \o parts[Len(parts)]

formatOneAuthor(name) ==
  LET s == Trim(JsString(JsOr(name, JsStr(""))))
      parts == SplitOnSpaces(s, "")
      initials == JoinAll([i \in 1..(Len(parts) - 1) |-> Initial(parts[i])], " ")
  IN IF s = "" THEN ""
     ELSE IF HasJapanese(s) /\ ~HasAsciiLetter(s) THEN s
     ELSE IF Len(parts) = 1 THEN parts[1]
     ELSE (IF initials # "" THEN initials \o " " ELSE "") \o parts[Len(parts)]

\* author names: one to MaxTokens tokens, separated by one or two spaces
NameTokens == {"John", "paul", "Smith", "Smith,", "#%", "K#"}

TokenSeqs == UNION { [1..n -> NameTokens] : n \in 1..MaxTokens }

AuthorNames ==
  { [tokens |-> toks, text |-> JoinAll(toks, sep)] : toks \in TokenSeqs, sep \in {" ", "  "} }

InitAuthor ==
  /\ pc = "start"
  /\ arg \in AuthorNames
  /\ out = Undef
  /\ IdleMain
  /\ IdlePure
  /\ IdleReport

ApplyFormatOneAuthor ==
  /\ pc = "start"
  /\ out' = formatOneAuthor(JsStr(arg.text))
  /\ pc' = "done"
  /\ UNCHANGED <<arg, mainVars, pureVars, reportVars>>

NextAuthor == ApplyFormatOneAuthor

SpecAuthor == InitAuthor /\ [][NextAuthor]_vars

\* the name-list form of a token sequence: the initials of all tokens but the
\* last, then the last token
Abbreviated(toks) ==
  IF Len(toks) = 1 THEN toks[1]
  ELSE JoinAll([i \in 1..(Len(toks) - 1) |-> UpperChar(CharAt(toks[i], 1)) \o "."], " ")
         \o " " \o toks[Len(toks)]

HasComma(s) == Includes(s, ",")

\* C12 as stated: a name that holds Japanese script is returned unchanged,
\* also when it holds ASCII letters as well.
C12_JapaneseNameUnchanged ==
  pc = "done" /\ HasJapanese(arg.text) => out = arg.text

\* C12 amended: a name that holds Japanese script and no ASCII letter is
\* returned unchanged; a name that holds both is abbreviated like any other,
\* every token but the last reduced to its initial.
C12_JapaneseOnlyNameUnchanged ==
  pc = "done" /\ HasJapanese(arg.text) =>
    /\ ~HasAsciiLetter(arg.text) => out = arg.text
    /\ HasAsciiLetter(arg.text) => out = Abbreviated(arg.tokens)

C12_Witness ==
  /\ pc = "done"
  /\ HasJapanese(arg.text) /\ HasAsciiLetter(arg.text)
  /\ Len(arg.tokens) = MaxTokens
  /\ out # arg.text

\* C13: a name "Family, G1 ... Gn" without Japanese script gives the initials
\* of G1 ... Gn followed by the family name.
C13_FamilyCommaGiven ==
  pc = "done" /\ ~HasJapanese(arg.text) /\ Len(arg.tokens) >= 2
    /\ arg.tokens[1] = "Smith,"
    /\ (\A i \in 2..Len(arg.tokens) : ~HasComma(arg.tokens[i]))
    => out = JoinAll([i \in 1..(Len(arg.tokens) - 1) |->
                        UpperChar(CharAt(arg.tokens[i + 1], 1)) \o "."], " ") \o " Smith"

\* C14: a name without Japanese script and without comma gives the initials of
\* all tokens but the last, then the last token; one token is returned as it is.
C14_GivenMiddleFamily ==
  pc = "done" /\ ~HasJapanese(arg.text) /\ ~HasComma(arg.text) =>
    out = Abbreviated(arg.tokens)

C14_Witness ==
  /\ pc = "done"
  /\ arg.tokens = <<"John", "paul", "Smith">>
  /\ out = "J. P. Smith"

\* ------------------------------------------------------------------------
\* revision with all authors (part_002): author names of a record
\* ------------------------------------------------------------------------
\* s.split(c) for a one-character separator
RECURSIVE SplitChar(_, _, _)
SplitChar(s, c, cur) ==
  IF s = "" THEN <<cur>>
  ELSE IF CharAt(s, 1) = c THEN <<cur>> \o SplitChar(SubSeq(s, 2, Len(s)), c, "")
  ELSE SplitChar(SubSeq(s, 2, Len(s)), c, cur \o CharAt(s, 1))

RECURSIVE LeadingSpaces(_)
LeadingSpaces(s) ==
  IF s # "" /\ IsSpace(CharAt(s, 1)) THEN 1 + LeadingSpaces(SubSeq(s, 2, Len(s))) ELSE 0

\* length of the match of /\s*;\s*|\s+and\s+/i at the start of s, 0 if none
SeparatorAt(s) ==
  LET a == LeadingSpaces(s)
      rest == SubSeq(s, a + 1, Len(s))
  IN IF rest # "" /\ CharAt(rest, 1) = ";"
       THEN a + 1 + LeadingSpaces(SubSeq(rest, 2, Len(rest)))
     ELSE IF a >= 1 /\ Len(rest) >= 4 /\ ToLowerCase(SubSeq(rest, 1, 3)) = "and"
             /\ IsSpace(CharAt(rest, 4))
       THEN a + 3 + LeadingSpaces(SubSeq(rest, 4, Len(rest)))
     ELSE 0

\* s.split(/\s*;\s*|\s+and\s+/i)
RECURSIVE SplitAuthors(_, _)
SplitAuthors(s, cur) ==
  IF s = "" THEN <<cur>>
  ELSE LET m == SeparatorAt(s)
       IN IF m > 0 THEN <<cur>> \o SplitAuthors(SubSeq(s, m + 1, Len(s)), "")
          ELSE SplitAuthors(SubSeq(s, 2, Len(s)), cur \o CharAt(s, 1))

\* /;|\s+and\s+/i.test(s)
HasSeparator(s) == \E i \in 1..Len(s) : SeparatorAt(SubSeq(s, i, Len(s))) > 0

NonEmpty(list) == SelectSeq(list, LAMBDA x : x # "")

formatAuthorName(raw) ==
  LET name == normalizeSpaces(P2_pickLangText(raw))
      pieces == SplitChar(name, ",", "")
      family == normalizeSpaces(pieces[1])
      given == SplitOnSpaces(normalizeSpaces(pieces[2]), "")
      tokens == SplitOnSpaces(name, "")
  IN IF name = "" THEN ""
     ELSE IF ToLowerCase(name) = "[object object]" THEN ""
     ELSE IF HasJapanese(name) THEN name
     ELSE IF Includes(name, ",")
       THEN normalizeSpaces(
              JoinAll([i \in 1..Len(given) |-> Initial(given[i])], " ") \o " " \o family)
     ELSE IF Len(tokens) = 1 THEN tokens[1]
     ELSE normalizeSpaces(
            JoinAll([i \in 1..(Len(tokens) - 1) |-> Initial(tokens[i])], " ")
              \o " " \o tokens[Len(tokens)])

joinAuthorsIEEE(list) ==
  LET a == NonEmpty(list)
  IN IF Len(a) = 0 THEN ""
     ELSE IF Len(a) = 1 THEN a[1]
     ELSE IF Len(a) = 2 THEN a[1] \o " and " \o a[2]
     ELSE JoinAll(SubSeq(a, 1, Len(a) - 1), ", ") \o ", and " \o a[Len(a)]

\* out.filter over a Set of lower-cased names: the first of equal names stays
RECURSIVE DedupIgnoringCase(_, _)
DedupIgnoringCase(list, seen) ==
  IF list = <<>> THEN <<>>
  ELSE LET key == ToLowerCase(Head(list))
       IN IF key \in seen THEN DedupIgnoringCase(Tail(list), seen)
          ELSE <<Head(list)>> \o DedupIgnoringCase(Tail(list), seen \cup {key})

\* F(e) with e computed once, whatever the number of times F reads it
WithValue(F(_), e) == CHOOSE r \in { F(x) : x \in {e} } : TRUE

RECURSIVE FlattenFrom(_, _)
FlattenFrom(lists, i) ==
  IF i > Len(lists) THEN <<>> ELSE lists[i] \o FlattenFrom(lists, i + 1)

Flatten(lists) == WithValue(LAMBDA v : FlattenFrom(v, 1), lists)

\* Object.entries(node) lists the properties in insertion order; the records
\* of the model hold their properties in this order.
KeyOrder ==
  <<"authors", "presenters", "title", "name", "full_name", "display_name",
    "family_name", "given_name", "ja", "en">>

Entries(node) == SelectSeq(KeyOrder, LAMBDA key : key \in DOMAIN node.f)

isAuthorKey(key) ==
  MatchesAny(ToLowerCase(key), {"author", "creator", "contributor", "member", "authors"})

\* pushName of extractAuthorsDeep: the name it appends to out, if any
pushName(v) ==
  LET t == normalizeSpaces(P2_pickLangText(v))
  IN IF t = "" THEN <<>>
     ELSE IF ToLowerCase(t) = "[object object]" THEN <<>>
     ELSE IF Len(t) > 120 THEN <<>>
     ELSE IF ~(HasJapanese(t) \/ Includes(t, ",") \/ \E i \in 1..Len(t) : IsSpace(CharAt(t, i)))
       THEN <<>>
     ELSE <<t>>

\* the family/given pattern and the full-name variants of an author object
StructuredNames(v, withLang) ==
  LET fam == P2_firstNonEmpty(<<OptMember(v, "family_name"), OptMember(v, "family"),
                                OptMember(v, "lastname"), OptMember(v, "last_name"),
                                OptMember(v, "surname")>>)
      giv == P2_firstNonEmpty(<<OptMember(v, "given_name"), OptMember(v, "given"),
                                OptMember(v, "firstname"), OptMember(v, "first_name"),
                                OptMember(v, "forename")>>)
  IN (IF fam # "" /\ giv # "" THEN pushName(JsStr(giv \o " " \o fam)) ELSE <<>>)
       \o pushName(OptMember(v, "full_name"))
       \o pushName(OptMember(v, "display_name"))
       \o pushName(OptMember(v, "name"))
       \o (IF withLang THEN pushName(OptMember(v, "en")) \o pushName(OptMember(v, "ja"))
           ELSE <<>>)

SplitNames(text) ==
  LET pieces == SplitAuthors(text, "")
  IN Flatten([i \in 1..Len(pieces) |-> pushName(JsStr(pieces[i]))])

\* what the loop body of walk pushes for one property, before it walks deeper
EntryNames(key, v) ==
  IF ~isAuthorKey(key) THEN <<>>
  ELSE IF v.k = "obj" THEN StructuredNames(v, FALSE)
  ELSE IF v.k = "str" THEN SplitNames(v.s)
  ELSE IF v.k = "arr"
    THEN Flatten([i \in 1..Len(v.a) |->
                    IF v.a[i].k = "str" THEN SplitNames(v.a[i].s)
                    ELSE IF v.a[i].k \in {"obj", "arr"} THEN StructuredNames(v.a[i], TRUE)
                    ELSE <<>>])
  ELSE <<>>

RECURSIVE walk(_, _)
walk(node, depth) ==
  IF IsNullish(node) \/ depth > 6 THEN <<>>
  ELSE IF node.k = "arr"
    THEN Flatten([i \in 1..Len(node.a) |-> walk(node.a[i], depth + 1)])
  ELSE IF node.k = "obj"
    THEN LET keys == Entries(node)
         IN Flatten([i \in 1..Len(keys) |->
                       LET v == node.f[keys[i]]
                       IN IF IsNullish(v) THEN <<>>
                          ELSE EntryNames(keys[i], v) \o walk(v, depth + 1)])
  ELSE <<>>

extractAuthorsDeep(obj) == WithValue(LAMBDA found : DedupIgnoringCase(found, {}), walk(obj, 0))

\* the names toAuthors hands to joinAuthorsIEEE
AuthorText(a) ==
  LET familyGiven(fam, giv) ==
        IF ToBoolean(OptMember(a, fam)) /\ ToBoolean(OptMember(a, giv))
        THEN JsStr(P2_pickLangText(OptMember(a, giv)) \o " " \o P2_pickLangText(OptMember(a, fam)))
        ELSE JsStr("")
  IN P2_firstNonEmpty(<<OptMember(a, "full_name"), OptMember(a, "display_name"),
                        OptMember(a, "name"), OptMember(a, "rm:display_name"),
                        familyGiven("family_name", "given_name"),
                        familyGiven("family", "given"), a>>)

SplitText(t) ==
  IF HasSeparator(t)
  THEN LET pieces == SplitAuthors(t, "")
       IN NonEmpty([i \in 1..Len(pieces) |-> Trim(pieces[i])])
  ELSE <<t>>

PoolFields ==
  <<"authors", "author", "creators", "creator", "contributors", "contributor", "members",
    "member", "rm:authors", "rm:author", "rm:creators", "rm:contributors", "rm:members">>

\* toAuthors without the special case of authors given per language
toAuthorNamesFromPools(item) ==
  LET pools == SelectSeq([i \in 1..Len(PoolFields) |-> OptMember(item, PoolFields[i])],
                         LAMBDA v : ~IsNullish(v))
      pooled == Flatten([i \in 1..Len(pools) |->
                           IF pools[i].k = "arr" THEN pools[i].a ELSE <<pools[i]>>])
      deep(found) == [i \in 1..Len(found) |-> JsStr(found[i])]
      split(names) == Flatten([i \in 1..Len(names) |-> SplitText(AuthorText(names[i]))])
      formatted(texts) == NonEmpty([i \in 1..Len(texts) |-> formatAuthorName(JsStr(texts[i]))])
      uniq(list) == DedupIgnoringCase(list, {})
  IN WithValue(uniq,
       WithValue(formatted,
         WithValue(split, pooled \o WithValue(deep, extractAuthorsDeep(item)))))

toAuthorNames(item) ==
  LET authObj == OptMember(item, "authors")
      pickArr(key) == IF OptMember(authObj, key).k = "arr" THEN OptMember(authObj, key) ELSE Null
      arr == JsOr(JsOr(JsOr(pickArr("ja"), pickArr("en")), pickArr("rm:ja")), pickArr("rm:en"))
      special == NonEmpty([i \in 1..Len(arr.a) |->
                   formatAuthorName(JsStr(P2_firstNonEmpty(
                     <<OptMember(arr.a[i], "name"), OptMember(arr.a[i], "full_name"),
                       OptMember(arr.a[i], "display_name"), arr.a[i]>>)))])
      joinedOr(names) == IF joinAuthorsIEEE(names) # "" THEN names ELSE toAuthorNamesFromPools(item)
  IN IF ToBoolean(authObj) /\ authObj.k = "obj" /\ ToBoolean(arr)
     THEN WithValue(joinedOr, special)
     ELSE toAuthorNamesFromPools(item)

toAuthors(item) == WithValue(joinAuthorsIEEE, toAuthorNames(item))

\* ------------------------------------------------------------------------
\* scripts/update_counts.js: author strings of papers and presentations
\* ------------------------------------------------------------------------
getAuthorsArray(item) ==
  LET a == OptMember(item, "authors")
  IN IF ~ToBoolean(a) THEN <<>>
     ELSE IF a.k = "arr" THEN a.a
     ELSE IF OptMember(a, "en").k = "arr" THEN OptMember(a, "en").a
     ELSE IF OptMember(a, "ja").k = "arr" THEN OptMember(a, "ja").a
     ELSE <<>>

formatAuthors(item) ==
  LET arr == getAuthorsArray(item)
      picked == [i \in 1..Len(arr) |->
                   IF arr[i].k = "str" THEN arr[i]
                   ELSE JsOr(JsOr(JsOr(OptMember(arr[i], "name"), OptMember(arr[i], "en")),
                                  OptMember(arr[i], "ja")), JsStr(""))]
      authors == SelectSeq(picked, ToBoolean)
  IN JoinAll([i \in 1..Len(authors) |-> formatOneAuthor(authors[i])], ", ")

PeopleFields ==
  <<"presenters", "presenter", "speakers", "speaker", "contributors", "contributor", "authors">>

RECURSIVE PeopleOf(_, _)
PeopleOf(item, fields) ==
  IF fields = <<>> THEN <<>>
  ELSE LET c == OptMember(item, Head(fields))
           langArr(key) == OptMember(c, key).k = "arr"
       IN IF ~ToBoolean(c) THEN PeopleOf(item, Tail(fields))
          ELSE IF c.k = "arr" THEN c.a
          ELSE IF c.k = "obj" /\ langArr("en") THEN OptMember(c, "en").a
          ELSE IF c.k = "obj" /\ langArr("ja") THEN OptMember(c, "ja").a
          ELSE IF c.k = "obj" /\ langArr("rm:en") THEN OptMember(c, "rm:en").a
          ELSE IF c.k = "obj" /\ langArr("rm:ja") THEN OptMember(c, "rm:ja").a
          ELSE IF c.k = "obj" /\ (\/ ToBoolean(OptMember(c, "name"))
                                  \/ ToBoolean(OptMember(c, "full_name"))
                                  \/ ToBoolean(OptMember(c, "display_name"))) THEN <<c>>
          ELSE IF c.k = "str" THEN <<c>>
          ELSE PeopleOf(item, Tail(fields))

getPresentationPeopleArray(item) == PeopleOf(item, PeopleFields)

pickPersonName(q) ==
  IF IsNullish(q) THEN JsStr("")
  ELSE IF q.k = "str" THEN q
  ELSE IF q.k \in {"obj", "arr"}
    THEN JsOr(JsOr(JsOr(JsOr(JsOr(JsOr(JsOr(
           OptMember(q, "name"), OptMember(q, "full_name")), OptMember(q, "display_name")),
           OptMember(q, "en")), OptMember(q, "ja")), OptMember(q, "rm:en")),
           OptMember(q, "rm:ja")), JsStr(""))
  ELSE JsStr("")

formatPresentationAuthors(item) ==
  LET arr == getPresentationPeopleArray(item)
      people == SelectSeq([i \in 1..Len(arr) |-> pickPersonName(arr[i])], ToBoolean)
  IN IF Len(people) = 0 THEN ""
     ELSE JoinAll([i \in 1..Len(people) |-> formatOneAuthor(people[i])], ", ")

\* records with one to MaxAuthors authors, in the shapes the API gives them
MaxAuthors == 3

FullNames ==
  {"John Smith", "Jane Smith", "john smith", "Taro Yamada", "#% %#", "Smith, John Paul"}

NameLists == UNION { [1..n -> FullNames] : n \in 0..MaxAuthors }

AuthorShapes == {"strings", "objects", "perLanguage", "oneString"}

AuthorsField(names, shape) ==
  CASE shape = "strings" -> JsArr([i \in 1..Len(names) |-> JsStr(names[i])])
    [] shape = "objects" -> JsArr([i \in 1..Len(names) |-> JsObj([name |-> JsStr(names[i])])])
    [] shape = "perLanguage" ->
         JsObj([en |-> JsArr([i \in 1..Len(names) |-> JsObj([name |-> JsStr(names[i])])])])
    [] shape = "oneString" -> JsStr(JoinAll(names, "; "))

AuthorRecords ==
  { [names |-> names, shape |-> shape,
     item |-> JsObj([authors |-> AuthorsField(names, shape), title |-> JsStr("Fuzzy logic")])] :
      names \in NameLists, shape \in AuthorShapes }

NoAuthors == [joined |-> "", authors |-> "", presenters |-> "", names |-> <<>>, ieee |-> ""]

InitAuthors ==
  /\ pc = "start"
  /\ arg \in AuthorRecords
  /\ out = NoAuthors
  /\ IdleMain
  /\ IdlePure
  /\ IdleReport

ApplyJoinAuthorsIEEE ==
  /\ pc = "start"
  /\ out' = [out EXCEPT !.joined = joinAuthorsIEEE(arg.names)]
  /\ pc' = "joined"
  /\ UNCHANGED <<arg, mainVars, pureVars, reportVars>>

ApplyFormatAuthors ==
  /\ pc = "joined"
  /\ out' = [out EXCEPT !.authors = formatAuthors(arg.item)]
  /\ pc' = "formatted"
  /\ UNCHANGED <<arg, mainVars, pureVars, reportVars>>

ApplyFormatPresentationAuthors ==
  /\ pc = "formatted"
  /\ out' = [out EXCEPT !.presenters = formatPresentationAuthors(arg.item)]
  /\ pc' = "presented"
  /\ UNCHANGED <<arg, mainVars, pureVars, reportVars>>

ApplyToAuthors ==
  /\ pc = "presented"
  /\ \E names \in {toAuthorNames(arg.item)} :
       out' = [out EXCEPT !.names = names, !.ieee = joinAuthorsIEEE(names)]
  /\ pc' = "done"
  /\ UNCHANGED <<arg, mainVars, pureVars, reportVars>>

NextAuthors ==
  ApplyJoinAuthorsIEEE \/ ApplyFormatAuthors \/ ApplyFormatPresentationAuthors \/ ApplyToAuthors

SpecAuthors == InitAuthors /\ [][NextAuthors]_vars

\* the name-list convention: "", "A", "A and B", "A, B, ..., and Z"
NameList(names) ==
  CASE Len(names) = 0 -> ""
    [] Len(names) = 1 -> names[1]
    [] Len(names) = 2 -> names[1] \o " and " \o names[2]
    [] OTHER -> JoinAll(SubSeq(names, 1, Len(names) - 1), ", ") \o ", and " \o names[Len(names)]

ListShapes == {"strings", "objects", "perLanguage"}

\* C15: the author string follows the name-list convention, for joinAuthorsIEEE
\* and for the strings formatAuthors and formatPresentationAuthors build from
\* the authors of a record.
C15_NameListConvention ==
  pc = "done" /\ arg.shape \in ListShapes =>
    LET formatted == [i \in 1..Len(arg.names) |-> formatOneAuthor(JsStr(arg.names[i]))]
    IN /\ out.joined = NameList(arg.names)
       /\ out.authors = NameList(formatted)
       /\ out.presenters = NameList(formatted)

IgnoringCaseDistinct(names) ==
  \A i, j \in 1..Len(names) : i # j => ToLowerCase(names[i]) # ToLowerCase(names[j])

\* C16: toAuthors removes names that are equal ignoring case and keeps the
\* others in the order of their first occurrence in the record.
C16_NoDuplicateNames ==
  pc = "done" =>
    /\ IgnoringCaseDistinct(out.names)
    /\ arg.shape \in ListShapes =>
         out.names =
           DedupIgnoringCase([i \in 1..Len(arg.names) |-> formatAuthorName(JsStr(arg.names[i]))],
                             {})

\* C17: a record whose authors list holds n authors with pairwise different
\* full names gives an author string that names n authors, one per author of
\* the list, in list order.
C17_AllAuthorsIncluded ==
  pc = "done" /\ arg.shape \in ListShapes
    /\ (\A i, j \in 1..Len(arg.names) : i # j => arg.names[i] # arg.names[j])
    => /\ Len(out.names) = Len(arg.names)
       /\ \A i \in 1..Len(arg.names) : out.names[i] = formatAuthorName(JsStr(arg.names[i]))
       /\ out.ieee = NameList(out.names)

\* ------------------------------------------------------------------------
\* scripts/update_counts.js: DOI link of a record (pickDoiUrl)
\* ------------------------------------------------------------------------
DoiPrefixes ==
  {"http://doi.org/", "https://doi.org/", "http://dx.doi.org/", "https://dx.doi.org/"}

\* s.replace(/^https?:\/\/(dx\.)?doi\.org\//i, "")
StartsWithDoiPrefix(s, q) == Len(s) >= Len(q) /\ ToLowerCase(SubSeq(s, 1, Len(q))) = q

StripDoiPrefix(s) ==
  IF \E q \in DoiPrefixes : StartsWithDoiPrefix(s, q)
  THEN LET q == CHOOSE q \in DoiPrefixes : StartsWithDoiPrefix(s, q)
       IN SubSeq(s, Len(q) + 1, Len(s))
  ELSE s

\* seeAlso.find(x => String(x?.label || "").toLowerCase() === "doi" && x?.["@id"])
IsDoiLink(x) ==
  /\ ToLowerCase(JsString(JsOr(OptMember(x, "label"), JsStr("")))) = "doi"
  /\ ToBoolean(OptMember(x, "@id"))

FindDoiLink(seeAlso) ==
  IF seeAlso.k = "arr" /\ \E i \in 1..Len(seeAlso.a) : IsDoiLink(seeAlso.a[i])
  THEN seeAlso.a[CHOOSE i \in 1..Len(seeAlso.a) :
                   IsDoiLink(seeAlso.a[i]) /\ \A j \in 1..(i - 1) : ~IsDoiLink(seeAlso.a[j])]
  ELSE Undef

\* the direct DOI fields and identifiers.doi, without see_also
DoiFromFields(item) ==
  LET doiDirect == firstNonEmpty(<<OptMember(item, "doi"), OptMember(item, "DOI"),
                                   OptMember(item, "rm:doi")>>)
      doiArr == OptMember(OptMember(item, "identifiers"), "doi")
  IN IF doiDirect # "" THEN "https://doi.org/" \o StripDoiPrefix(doiDirect)
     ELSE IF doiArr.k = "arr" /\ Len(doiArr.a) > 0
       THEN "https://doi.org/" \o StripDoiPrefix(JsString(doiArr.a[1]))
     ELSE IF doiArr.k = "str" /\ Trim(doiArr.s) # ""
       THEN "https://doi.org/" \o StripDoiPrefix(Trim(doiArr.s))
     ELSE ""

\* the direct fields and identifiers.doi asked before see_also
pickDoiUrlFieldsFirst(item) ==
  LET doiLink == FindDoiLink(OptMember(item, "see_also"))
  IN IF DoiFromFields(item) # "" THEN DoiFromFields(item)
     ELSE IF ToBoolean(OptMember(doiLink, "@id")) THEN JsString(OptMember(doiLink, "@id"))
     ELSE ""

pickDoiUrl(item) ==
  LET doiLink == FindDoiLink(OptMember(item, "see_also"))
  IN IF ToBoolean(OptMember(doiLink, "@id")) THEN JsString(OptMember(doiLink, "@id"))
     ELSE DoiFromFields(item)

\* a DOI as a field gives it: the bare DOI behind a resolver prefix, padded
DoiText(d) == d.pad \o d.prefix \o d.bare \o d.pad

DirectDois ==
  {Undef} \cup { [bare |-> "10.1109/A", prefix |-> q, pad |-> w] :
                   q \in {"", "https://doi.org/", "http://dx.doi.org/", "HTTPS://DOI.ORG/"},
                   w \in {"", " "} }

IdentifierDois ==
  {Undef, [shape |-> "emptyArray"]}
    \cup { [bare |-> "10.2000/B", prefix |-> q, pad |-> "", shape |-> sh] :
             q \in {"", "https://dx.doi.org/"}, sh \in {"string", "array"} }

LinkDois ==
  {Undef} \cup { [bare |-> "10.3000/C", prefix |-> q, pad |-> "", label |-> l] :
                   q \in {"https://doi.org/", "http://dx.doi.org/"}, l \in {"doi", "DOI"} }

IdentifiersField(d) ==
  IF d = Undef THEN Undef
  ELSE IF d.shape = "emptyArray" THEN JsObj([doi |-> JsArr(<<>>)])
  ELSE IF d.shape = "array" THEN JsObj([doi |-> JsArr(<<JsStr(DoiText(d))>>)])
  ELSE JsObj([doi |-> JsStr(DoiText(d))])

SeeAlsoField(d) ==
  LET page == JsObj(("label" :> JsStr("url")) @@ ("@id" :> JsStr("https://researchmap.jp/x")))
  IN IF d = Undef THEN JsArr(<<page>>)
     ELSE JsArr(<<page, JsObj(("label" :> JsStr(d.label)) @@ ("@id" :> JsStr(DoiText(d))))>>)

DoiRecords ==
  { [direct |-> d, ident |-> i, link |-> l,
     item |-> JsObj([doi |-> IF d = Undef THEN Undef ELSE JsStr(DoiText(d)),
                     identifiers |-> IdentifiersField(i),
                     see_also |-> SeeAlsoField(l)])] :
      d \in DirectDois, i \in IdentifierDois, l \in LinkDois }

InitDoi ==
  /\ pc = "start"
  /\ arg \in DoiRecords
  /\ out = [url |-> "", again |-> ""]
  /\ IdleMain
  /\ IdlePure
  /\ IdleReport

ApplyPickDoiUrl ==
  /\ pc = "start"
  /\ out' = [out EXCEPT !.url = pickDoiUrl(arg.item)]
  /\ pc' = "picked"
  /\ UNCHANGED <<arg, mainVars, pureVars, reportVars>>

\* the link handed back as the DOI of a record
ApplyPickDoiUrlAgain ==
  /\ pc = "picked"
  /\ out' = [out EXCEPT !.again = pickDoiUrl(JsObj([doi |-> JsStr(out.url)]))]
  /\ pc' = "done"
  /\ UNCHANGED <<arg, mainVars, pureVars, reportVars>>

NextDoi == ApplyPickDoiUrl \/ ApplyPickDoiUrlAgain

SpecDoi == InitDoi /\ [][NextDoi]_vars

HasDoi(d) == d # Undef /\ "bare" \in DOMAIN d

Canonical(d) == "https://doi.org/" \o d.bare

\* C18: a non-empty link of a record that carries a DOI is "https://doi.org/"
\* followed by the bare DOI of one of its sources, and normalizing the link
\* again gives the same link.
C18_DoiLinkIsCanonical ==
  pc = "done" /\ out.url # "" =>
    /\ out.url \in { Canonical(d) : d \in { x \in {arg.direct, arg.ident, arg.link} : HasDoi(x) } }
    /\ out.again = out.url

\* C19 as stated: a direct DOI field wins over identifiers.doi, which wins
\* over a see_also entry labelled doi; no source gives the empty string.
C19_DirectThenIdentifiersThenSeeAlso ==
  pc = "done" =>
    out.url = IF HasDoi(arg.direct) THEN Canonical(arg.direct)
              ELSE IF HasDoi(arg.ident) THEN Canonical(arg.ident)
              ELSE IF HasDoi(arg.link) THEN DoiText(arg.link)
              ELSE ""

\* C19 amended: a see_also entry labelled doi wins, its link returned as it
\* is given; then a direct DOI field, then identifiers.doi, both as canonical
\* links; no source gives the empty string.
C19_SeeAlsoThenDirectThenIdentifiers ==
  pc = "done" =>
    out.url = IF HasDoi(arg.link) THEN DoiText(arg.link)
              ELSE IF HasDoi(arg.direct) THEN Canonical(arg.direct)
              ELSE IF HasDoi(arg.ident) THEN Canonical(arg.ident)
              ELSE ""

C19_Witness ==
  /\ pc = "done"
  /\ HasDoi(arg.direct) /\ HasDoi(arg.ident) /\ HasDoi(arg.link)
  /\ out.url = DoiText(arg.link)
  /\ out.url # Canonical(arg.direct)

\* ------------------------------------------------------------------------
\* scripts/update_counts.js: pages of a record (normalizePages, pickPages)
\* "~" stands for the en dash U+2013 and "^" for the em dash U+2014.
\* ------------------------------------------------------------------------
EnDash == "~"

DashChars == "-~^"

\* length of the match of /pp?\.\s*/i at the start of s, 0 if none
PagePrefixAt(s) ==
  LET low == ToLowerCase(s)
      dot == IF Len(s) >= 3 /\ SubSeq(low, 1, 3) = "pp." THEN 3
             ELSE IF Len(s) >= 2 /\ SubSeq(low, 1, 2) = "p." THEN 2
             ELSE 0
  IN IF dot = 0 THEN 0 ELSE dot + LeadingSpaces(SubSeq(s, dot + 1, Len(s)))

\* s.replace(/pp?\.\s*/i, ""): the first match, wherever it is
RECURSIVE RemovePagePrefix(_)
RemovePagePrefix(s) ==
  IF s = "" THEN ""
  ELSE IF PagePrefixAt(s) > 0 THEN SubSeq(s, PagePrefixAt(s) + 1, Len(s))
  ELSE CharAt(s, 1) \o RemovePagePrefix(SubSeq(s, 2, Len(s)))

\* s.replace(/\s*[-<en dash><em dash>]\s*/g, "<en dash>")
RECURSIVE ReplaceDashes(_)
ReplaceDashes(s) ==
  IF s = "" THEN ""
  ELSE LET a == LeadingSpaces(s)
           rest == SubSeq(s, a + 1, Len(s))
       IN IF rest # "" /\ CharIn(CharAt(rest, 1), DashChars)
          THEN EnDash \o ReplaceDashes(SubSeq(rest, 2 + LeadingSpaces(SubSeq(rest, 2, Len(rest))),
                                              Len(rest)))
          ELSE CharAt(s, 1) \o ReplaceDashes(SubSeq(s, 2, Len(s)))

normalizePages(q) ==
  LET s == normalizeSpaces(q)
  IN IF s = "" THEN "" ELSE ReplaceDashes(RemovePagePrefix(s))

pickPages(item) ==
  LET raw == OptMember(item, "raw_type_fields")
      start == firstNonEmpty(<<OptMember(item, "starting_page"), OptMember(item, "start_page"),
                               OptMember(item, "page_start"), OptMember(item, "first_page"),
                               OptMember(item, "startingPage"),
                               OptMember(raw, "starting_page"), OptMember(raw, "start_page")>>)
      end == firstNonEmpty(<<OptMember(item, "ending_page"), OptMember(item, "end_page"),
                             OptMember(item, "page_end"), OptMember(item, "last_page"),
                             OptMember(item, "endingPage"),
                             OptMember(raw, "ending_page"), OptMember(raw, "end_page")>>)
      endClean == normalizeSpaces(end)
  IN IF start # "" /\ endClean # "" /\ endClean # "+"
     THEN normalizePages(start \o "-" \o endClean)
     ELSE normalizePages(firstNonEmpty(
            <<OptMember(item, "pages"), OptMember(item, "page"), OptMember(item, "page_range"),
              OptMember(item, "pagination"), OptMember(item, "article_number"),
              OptMember(raw, "pages"), OptMember(raw, "page")>>))

\* page fields of a record: a start page, an end page, and a page range made
\* of an optional "pp." prefix, a first page, a hyphen or en dash, a last page
PageRanges ==
  {Undef} \cup { [prefix |-> q, first |-> f, dash |-> d, last |-> "15"] :
                   q \in {"", "pp. ", "pp."}, f \in {"12", "e12", "Supp. 12"},
                   d \in {"-", EnDash} }

RangeText(r) == r.prefix \o r.first \o r.dash \o r.last

PageRecords ==
  { [start |-> st, end |-> en, range |-> r,
     item |-> JsObj([starting_page |-> st, ending_page |-> Undef,
                     raw_type_fields |-> JsObj([end_page |-> en]),
                     pages |-> Undef,
                     page_range |-> IF r = Undef THEN Undef ELSE JsStr(RangeText(r))])] :
      st \in {Undef, JsStr("101"), JsNum(7)},
      en \in {Undef, JsStr("110"), JsStr("+"), JsStr(" ")},
      r \in PageRanges }

InitPages ==
  /\ pc = "start"
  /\ arg \in PageRecords
  /\ out = Undef
  /\ IdleMain
  /\ IdlePure
  /\ IdleReport

ApplyPickPages ==
  /\ pc = "start"
  /\ out' = pickPages(arg.item)
  /\ pc' = "done"
  /\ UNCHANGED <<arg, mainVars, pureVars, reportVars>>

NextPages == ApplyPickPages

SpecPages == InitPages /\ [][NextPages]_vars

PageText(v) == IF v.k = "str" THEN Trim(v.s) ELSE IF v.k = "num" THEN NumberToString(v.n) ELSE ""

\* C20: with a start page and an end page the pages are start, en dash, end,
\* whatever the page range holds; otherwise they are the page range without
\* its leading "pp." and with an en dash for the hyphen, nothing else removed.
C20_PagesFromStartEndOrRange ==
  pc = "done" =>
    out = IF PageText(arg.start) # "" /\ PageText(arg.end) # ""
          THEN PageText(arg.start) \o EnDash \o PageText(arg.end)
          ELSE IF arg.range = Undef THEN ""
          ELSE arg.range.first \o EnDash \o arg.range.last

\* ------------------------------------------------------------------------
\* scripts/update_counts.js: year of a record (pickYearFromAnyDate,
\* pickPaperYear, pickPresentationYear)
\* ------------------------------------------------------------------------
RECURSIVE DecimalString(_)
\* String(n) of a natural number
DecimalString(n) ==
  IF n < 10 THEN CharAt(Digits, n + 1)
  ELSE DecimalString(n \div 10) \o CharAt(Digits, (n % 10) + 1)

IsDigits(s) == \A i \in 1..Len(s) : CharIn(CharAt(s, i), Digits)

\* !d ? "" : (String(d).match(/^(\d{4})/) ?? [,""])[1]
pickYearFromAnyDate(d) ==
  IF ~ToBoolean(d) THEN ""
  ELSE LET s == IF d.k = "num" THEN DecimalString(d.n) ELSE JsString(d)
       IN IF Len(s) >= 4 /\ IsDigits(SubSeq(s, 1, 4)) THEN SubSeq(s, 1, 4) ELSE ""

pickPaperYear(item) ==
  pickYearFromAnyDate(
    JsOr(OptMember(item, "publication_date"),
         JsOr(OptMember(item, "rm_publication_date"), OptMember(item, "year"))))

pickPresentationYear(item) ==
  pickYearFromAnyDate(
    JsOr(OptMember(item, "publication_date"),
         JsOr(OptMember(item, "presented_date"),
              JsOr(OptMember(item, "presentation_date"),
                   JsOr(OptMember(item, "start_date"),
                        JsOr(OptMember(item, "date"), OptMember(item, "year")))))))

\* date-like values a researchmap record carries
DateValues ==
  { Undef, JsStr(""), JsStr("2021-03-01"), JsStr("March 2020"), JsStr("n.d."), JsNum(2019) }

DateRecords ==
  { [item |-> JsObj([publication_date |-> p, rm_publication_date |-> r,
                     presented_date |-> q, year |-> y])] :
      p \in DateValues, r \in DateValues, q \in DateValues, y \in DateValues }

InitYear ==
  /\ pc = "start"
  /\ arg \in DateRecords
  /\ out = Undef
  /\ IdleMain
  /\ IdlePure
  /\ IdleReport

ApplyPickPaperYear ==
  /\ pc = "start"
  /\ out' = [fn |-> "pickPaperYear", year |-> pickPaperYear(arg.item)]
  /\ pc' = "done"
  /\ UNCHANGED <<arg, mainVars, pureVars, reportVars>>

ApplyPickPresentationYear ==
  /\ pc = "start"
  /\ out' = [fn |-> "pickPresentationYear", year |-> pickPresentationYear(arg.item)]
  /\ pc' = "done"
  /\ UNCHANGED <<arg, mainVars, pureVars, reportVars>>

NextYear == ApplyPickPaperYear \/ ApplyPickPresentationYear

SpecYear == InitYear /\ [][NextYear]_vars

DateText(v) == IF v.k = "str" THEN v.s ELSE IF v.k = "num" THEN DecimalString(v.n) ELSE ""

IsYearAt(s, i) ==
  /\ i + 3 <= Len(s)
  /\ SubSeq(s, i, i + 1) \in {"19", "20"}
  /\ IsDigits(SubSeq(s, i + 2, i + 3))

HasYear(s) == \E i \in 1..Len(s) : IsYearAt(s, i)

\* the first (19|20)dd of s
YearIn(s) ==
  LET i == CHOOSE j \in 1..Len(s) : IsYearAt(s, j) /\ \A h \in 1..(j - 1) : ~IsYearAt(s, h)
  IN SubSeq(s, i, i + 3)

RECURSIVE FirstYear(_)
FirstYear(texts) ==
  IF texts = <<>> THEN ""
  ELSE IF HasYear(texts[1]) THEN YearIn(texts[1])
  ELSE FirstYear(Tail(texts))

CandidateTexts(item, names) == [i \in 1..Len(names) |-> DateText(OptMember(item, names[i]))]

\* C21: the year of a record is the (19|20)dd year of the first candidate
\* date field, in priority order, that contains one; it is empty only when no
\* candidate field contains one.
C21_YearOfFirstCandidateWithYear ==
  pc = "done" /\ out # Undef =>
    out.year = FirstYear(CandidateTexts(arg.item,
                 IF out.fn = "pickPaperYear"
                 THEN <<"publication_date", "rm_publication_date", "year">>
                 ELSE <<"publication_date", "presented_date", "presentation_date",
                        "start_date", "date", "year">>))

\* ------------------------------------------------------------------------
\* scripts/update_counts.js: serial numbers and pages (toNumberedPaperList,
\* toNumberedPresentationList, groupByYearDesc, htmlPage)
\* ------------------------------------------------------------------------
MaxRecords == 3

\* Array.prototype.sort with a consistent comparator: the stable order, an
\* element stands before the first one it compares smaller than.
StableSort(s, Cmp(_, _)) ==
  LET RECURSIVE Insert(_, _)
      Insert(x, sorted) ==
        IF sorted = <<>> THEN <<x>>
        ELSE IF Cmp(x, Head(sorted)) < 0 THEN <<x>> \o sorted
        ELSE <<Head(sorted)>> \o Insert(x, Tail(sorted))
      RECURSIVE SortUpTo(_)
      SortUpTo(n) ==
        IF n = 0 THEN <<>>
        ELSE WithValue(LAMBDA v : Insert(s[n], v), SortUpTo(n - 1))
  IN SortUpTo(Len(s))

Reverse(s) == [i \in 1..Len(s) |-> s[Len(s) + 1 - i]]

DigitValue(c) == (CHOOSE i \in 1..Len(Digits) : CharAt(Digits, i) = c) - 1

RECURSIVE DigitsToNumber(_)
DigitsToNumber(s) ==
  IF s = "" THEN 0
  ELSE 10 * DigitsToNumber(SubSeq(s, 1, Len(s) - 1)) + DigitValue(CharAt(s, Len(s)))

\* Number(year || 0) of a year that is "" or four digits
YearNumber(year) == IF year = "" THEN 0 ELSE DigitsToNumber(year)

RECURSIVE localeCompare(_, _)
\* a.localeCompare(b) of two strings of digits
localeCompare(a, b) ==
  IF a = "" /\ b = "" THEN 0
  ELSE IF a = "" THEN -1
  ELSE IF b = "" THEN 1
  ELSE IF DigitValue(CharAt(a, 1)) < DigitValue(CharAt(b, 1)) THEN -1
  ELSE IF DigitValue(CharAt(a, 1)) > DigitValue(CharAt(b, 1)) THEN 1
  ELSE localeCompare(SubSeq(a, 2, Len(a)), SubSeq(b, 2, Len(b)))

\* String(item?.["rm:id"] || item?.id || "")
RecordId(item) ==
  LET v == JsOr(OptMember(item, "rm:id"), JsOr(OptMember(item, "id"), JsStr("")))
  IN IF v.k = "num" THEN DecimalString(v.n) ELSE JsString(v)

\* t.en || t.ja || Object.values(t)[0] || ""
TitleText(t) ==
  LET first == IF t.k = "obj" /\ Entries(t) # <<>> THEN t.f[Entries(t)[1]] ELSE Undef
  IN JsOr(OptMember(t, "en"), JsOr(OptMember(t, "ja"), JsOr(first, JsStr(""))))

pickPaperTitle(item) ==
  LET t == JsOr(OptMember(item, "paper_title"), JsOr(OptMember(item, "title"), JsObj(<<>>)))
  IN IF t.k = "str" THEN t ELSE TitleText(t)

pickPresentationTitle(item) ==
  LET t == JsOr(OptMember(item, "presentation_title"),
             JsOr(OptMember(item, "title"),
               JsOr(OptMember(item, "name"),
                 JsOr(OptMember(item, "presentation_name"), JsObj(<<>>)))))
  IN IF t.k = "str" THEN t ELSE TitleText(t)

\* the comparator of both lists, on records that carry their year
CompareNewestFirst(a, b) ==
  IF YearNumber(a.year) # YearNumber(b.year) THEN YearNumber(b.year) - YearNumber(a.year)
  ELSE localeCompare(a.id, b.id)

CompareOldestFirst(a, b) ==
  IF YearNumber(a.year) # YearNumber(b.year) THEN YearNumber(a.year) - YearNumber(b.year)
  ELSE localeCompare(a.id, b.id)

\* sorted.map((item, idx) => ({..., no: idx + 1, ...})).reverse(); the fields
\* of the output record that neither the numbering nor the page layout reads
\* (doi_url, volume, number, pages, authors, venue) are left out
Numbered(records) ==
  LET sorted == StableSort(records, CompareOldestFirst)
  IN Reverse([i \in 1..Len(sorted) |-> [sorted[i] EXCEPT !.no = i]])

\* typeof pubKindOrFn === "function" ? pubKindOrFn(item) : pubKindOrFn || "paper";
\* a function is held as the kinds it gives to the items
PubKind(pubKindOrFn, item) ==
  IF pubKindOrFn.k = "fn" THEN pubKindOrFn.kinds[item]
  ELSE JsString(JsOr(pubKindOrFn, JsStr("paper")))

toNumberedPaperList(items, pubKindOrFn) ==
  WithValue(Numbered,
    [i \in 1..Len(items) |->
       [id |-> RecordId(items[i]), pub_kind |-> PubKind(pubKindOrFn, items[i]), no |-> 0,
        year |-> pickPaperYear(items[i]), title |-> pickPaperTitle(items[i])]])

toNumberedPresentationList(items) ==
  WithValue(Numbered,
    [i \in 1..Len(items) |->
       [id |-> RecordId(items[i]), pub_kind |-> "", no |-> 0,
        year |-> pickPresentationYear(items[i]), title |-> pickPresentationTitle(items[i])]])

\* const y = p.year || "Unknown"
GroupKey(p) == IF p.year = "" THEN "Unknown" ELSE p.year

\* the keys of the Map, in the order of their first insertion
MapKeys(items) ==
  LET firstAt(i) == \A j \in 1..(i - 1) : GroupKey(items[j]) # GroupKey(items[i])
      idx == SelectSeq([i \in 1..Len(items) |-> i], firstAt)
  IN [k \in 1..Len(idx) |-> GroupKey(items[idx[k]])]

IsNaNKey(y) == ~IsDigits(y)

\* the comparator of the year keys: NaN keys last, the others descending
CompareYearKeys(a, b) ==
  IF IsNaNKey(a) /\ IsNaNKey(b) THEN 0
  ELSE IF IsNaNKey(a) THEN 1
  ELSE IF IsNaNKey(b) THEN -1
  ELSE DigitsToNumber(b) - DigitsToNumber(a)

groupByYearDesc(items) ==
  LET years == StableSort(MapKeys(items), CompareYearKeys)
  IN [k \in 1..Len(years) |->
        [year |-> years[k], items |-> SelectSeq(items, LAMBDA p : GroupKey(p) = years[k])]]

\* the blocks of the page: one heading and the numbered entries under it
htmlPage(items) == WithValue(groupByYearDesc, items)

RecordDates == { Undef, JsStr("2019-04-01"), JsStr("2021"), JsStr("0000-00-00") }

RecordIds == { Undef, JsStr("1") }

RecordTitles == { JsStr("A"), JsObj([ja |-> JsStr("B")]) }

\* records of every date with and without an id, and a second record that
\* shares the year and the missing id of another and differs in its title
RecordItems ==
  { r \in { JsObj(("rm:id" :> i) @@ [publication_date |-> d, title |-> t]) :
              d \in RecordDates, i \in RecordIds, t \in RecordTitles } :
      \/ r.f.title = JsStr("A")
      \/ (r.f["rm:id"] = Undef /\ r.f.publication_date = JsStr("2019-04-01")) }

RecordLists == UNION { [1..n -> RecordItems] : n \in 0..MaxRecords }

NoList == [fn |-> "", list |-> <<>>, again |-> <<>>, page |-> <<>>]

InitNumbering ==
  /\ pc = "start"
  /\ arg \in { [items |-> l] : l \in RecordLists }
  /\ out = NoList
  /\ IdleMain
  /\ IdlePure
  /\ IdleReport

ApplyToNumberedPaperList ==
  /\ pc = "start"
  /\ out' = [out EXCEPT !.fn = "toNumberedPaperList",
                        !.list = toNumberedPaperList(arg.items, JsStr("journal"))]
  /\ pc' = "numbered"
  /\ UNCHANGED <<arg, mainVars, pureVars, reportVars>>

ApplyToNumberedPresentationList ==
  /\ pc = "start"
  /\ out' = [out EXCEPT !.fn = "toNumberedPresentationList",
                        !.list = toNumberedPresentationList(arg.items)]
  /\ pc' = "numbered"
  /\ UNCHANGED <<arg, mainVars, pureVars, reportVars>>

\* the same collection, met in the opposite order
ApplyToReversedCollection ==
  /\ pc = "numbered"
  /\ out' = [out EXCEPT !.again =
               IF out.fn = "toNumberedPaperList"
               THEN toNumberedPaperList(Reverse(arg.items), JsStr("journal"))
               ELSE toNumberedPresentationList(Reverse(arg.items))]
  /\ pc' = "renumbered"
  /\ UNCHANGED <<arg, mainVars, pureVars, reportVars>>

ApplyHtmlPage ==
  /\ pc = "numbered"
  /\ out' = [out EXCEPT !.page = htmlPage(out.list)]
  /\ pc' = "page"
  /\ UNCHANGED <<arg, mainVars, pureVars, reportVars>>

NextNumbering ==
  \/ ApplyToNumberedPaperList
  \/ ApplyToNumberedPresentationList
  \/ ApplyToReversedCollection
  \/ ApplyHtmlPage

SpecNumbering == InitNumbering /\ [][NextNumbering]_vars

\* what a record of the input shows in the output, its number apart
Shown(item) ==
  [id |-> RecordId(item), year |-> pickPaperYear(item), title |-> pickPaperTitle(item)]

ShownOf(p) == [id |-> p.id, year |-> p.year, title |-> p.title]

Occurrences(s, x) == Cardinality({ i \in 1..Len(s) : s[i] = x })

\* C22: the N records of a list get the numbers 1..N, each once; a record of
\* a strictly earlier year has the smaller number; every input record is in
\* the output exactly as often as it is in the input.
C22_NumbersOldestFirst ==
  pc = "numbered" =>
    LET list == out.list
        n == Len(arg.items)
    IN /\ Len(list) = n
       /\ \A k \in 1..n : Cardinality({ i \in 1..n : list[i].no = k }) = 1
       /\ \A i, j \in 1..n :
            (list[i].year # "" /\ list[j].year # ""
               /\ DigitsToNumber(list[i].year) < DigitsToNumber(list[j].year))
              => list[i].no < list[j].no
       /\ \A i \in 1..n :
            Occurrences([k \in 1..n |-> ShownOf(list[k])], Shown(arg.items[i]))
              = Occurrences([k \in 1..n |-> Shown(arg.items[k])], Shown(arg.items[i]))

C22_Witness ==
  /\ pc = "numbered"
  /\ Len(out.list) = MaxRecords
  /\ \E i, j \in 1..Len(out.list) :
       /\ out.list[i].year = "2019" /\ out.list[j].year = "2021"
       /\ out.list[i].no = 1 /\ i > j
  /\ \E i \in 1..Len(arg.items) : pickPaperYear(arg.items[i]) = "2021" /\ i = 1

\* the serial numbers of a page, read from top to bottom
PageNumbers(page) ==
  Flatten([k \in 1..Len(page) |-> [i \in 1..Len(page[k].items) |-> page[k].items[i].no]])

\* C23: on a page the year groups stand in strictly descending year order,
\* the group of the records without a year last, and the serial numbers read
\* from top to bottom go down from N to 1.
C23_PageNewestFirst ==
  pc = "page" =>
    LET page == out.page
        n == Len(arg.items)
    IN /\ \A k, l \in 1..Len(page) :
            k < l => /\ page[k].year # "Unknown"
                     /\ \/ page[l].year = "Unknown"
                        \/ DigitsToNumber(page[k].year) > DigitsToNumber(page[l].year)
       /\ PageNumbers(page) = [i \in 1..n |-> n + 1 - i]

\* the serial numbers that the records showing x have in a list
NumbersOf(list, x) == { list[i].no : i \in { j \in 1..Len(list) : ShownOf(list[j]) = x } }

\* C28: a record gets the same serial number whatever the order in which the
\* collection is met.
C28_NumberIndependentOfOrder ==
  pc = "renumbered" =>
    \A i \in 1..Len(out.list) :
      NumbersOf(out.list, ShownOf(out.list[i])) = NumbersOf(out.again, ShownOf(out.list[i]))

\* ------------------------------------------------------------------------
\* scripts/update_counts.js: a run of the script (fetchAllCategory, main,
\* main().catch), the output paths being writable.
\* "<" stands for U+62DB and ">" for U+5F85 (together the keyword "invited"),
\* "{}" for U+8B1B U+6F14 (lecture) and "[]" for U+767A U+8868 (presentation).
\* ------------------------------------------------------------------------
Sho == "<"

Tai == ">"

Koen == "{}"

Happyo == "[]"

isInternationalPresentation(item) ==
  LET t == JsOr(OptMember(item, "published_paper_type"),
             JsOr(OptMember(OptMember(item, "raw_type_fields"), "published_paper_type"),
                  JsStr("")))
  IN ToLowerCase(JsString(t)) = "international_conference_proceedings"

isInvitedPresentation(item) ==
  LET raw == OptMember(item, "raw_type_fields")
      v1 == OptMember(item, "invited")
      t == ToLowerCase(JsString(
             JsOr(OptMember(item, "presentation_type"),
               JsOr(OptMember(item, "presentation_kind"),
                 JsOr(OptMember(item, "type"),
                   JsOr(OptMember(raw, "presentation_type"),
                     JsOr(OptMember(raw, "type"), JsStr(""))))))))
      note == ToLowerCase(JsString(
                JsOr(OptMember(item, "note"),
                  JsOr(OptMember(item, "remarks"),
                    JsOr(OptMember(item, "comment"), JsStr(""))))))
      j == ToLowerCase(JsString(
             JsOr(OptMember(item, "invited_talk"),
               JsOr(OptMember(item, Sho \o Tai),
                 JsOr(OptMember(item, Sho \o Tai \o Koen), JsStr(""))))))
      title == JsString(pickPresentationTitle(item))
  IN \/ v1 = JsTrue \/ v1 = JsStr("true") \/ v1 = JsNum(1)
     \/ Includes(t, "invited")
     \/ Includes(note, "invited")
     \/ (j # "" /\ j # "false")
     \/ /\ Includes(title, Sho) \/ Includes(title, Tai)
        /\ Includes(title, Koen) \/ Includes(title, Happyo)

\* fetchAllCategory: the items of the answer, or the Error it throws; an
\* answer holds fewer items than one page of 1000
fetchAllCategoryLenient(e, category) ==
  IF e.permalink = "" \/ ~e[category].ok THEN JsArr(<<>>)
  ELSE LET items == OptMember(e[category].data, "items")
       IN IF items.k = "arr" THEN items ELSE JsArr(<<>>)

fetchAllCategory(e, category) ==
  IF e.permalink = "" THEN Thrown
  ELSE IF ~e[category].ok THEN Thrown
  ELSE LET items == OptMember(e[category].data, "items")
       IN IF items.k = "arr" THEN items ELSE JsArr(<<>>)

InInvited(list, i) == isInvitedPresentation(list[i])
InOralUnfiltered(list, i) == TRUE
InOral(list, i) == ~isInvitedPresentation(list[i])
InOralInternational(list, i) == InOral(list, i) /\ isInternationalPresentation(list[i])
InOralDomestic(list, i) == InOral(list, i) /\ ~isInternationalPresentation(list[i])

ItemsAt(list, idx) == [k \in 1..Len(idx) |-> list[idx[k]]]

journal == toNumberedPaperList(ItemsAt(allPapers, journalRaw), JsStr("journal"))
conf == toNumberedPaperList(ItemsAt(allPapers, confRaw), JsStr("conference"))
book == toNumberedPaperList(ItemsAt(allPapers, bookRaw), JsStr("book"))
review ==
  toNumberedPaperList(ItemsAt(allPapers, reviewRaw),
    [k |-> "fn",
     kinds |-> [it \in Range(allPapers) |->
                  IF IsTrue(isConferenceProceedings(it)) THEN "conference" ELSE "journal"]])
presInternational == toNumberedPresentationList(ItemsAt(allPresentations, oralInternationalRaw))
presDomestic == toNumberedPresentationList(ItemsAt(allPresentations, oralDomesticRaw))
invited == toNumberedPresentationList(ItemsAt(allPresentations, invitedRaw))

\* the pages in the order main writes them, after counts.json
PageOrder ==
  <<"journal-papers.html", "conference-proceedings.html", "book-chapters.html",
    "review-articles.html", "oral-presentations-domestic.html",
    "oral-presentations-international.html", "invited-talks.html">>

PageItems(name) ==
  CASE name = "journal-papers.html" -> journal
    [] name = "conference-proceedings.html" -> conf
    [] name = "book-chapters.html" -> book
    [] name = "review-articles.html" -> review
    [] name = "oral-presentations-domestic.html" -> presDomestic
    [] name = "oral-presentations-international.html" -> presInternational
    [] OTHER -> invited

PlainTalk == JsStr("Fuzzy control")

InvitedLecture == JsStr(Sho \o Tai \o Koen)

\* a title that holds U+5F85 and "presentation" and not the keyword
ExpectedTalk == JsStr("K" \o Tai \o "no" \o Happyo)

Presentation(i, t, title, p, talk) ==
  JsObj([invited |-> i, presentation_type |-> t, title |-> title,
         published_paper_type |-> p, invited_talk |-> talk])

PresentationItems ==
  { Presentation(i, t, title, p, talk) :
      i \in { Undef, JsTrue, JsFalse, JsStr("true") },
      t \in { Undef, JsStr("Invited lecture"), JsStr("oral_presentation") },
      title \in { PlainTalk, InvitedLecture, ExpectedTalk },
      p \in { Undef, JsStr("international_conference_proceedings") },
      talk \in { Undef, JsStr("false") } }

CorePresentationItems ==
  { Presentation(Undef, Undef, PlainTalk, Undef, Undef),
    Presentation(Undef, JsStr("oral_presentation"), PlainTalk,
                 JsStr("international_conference_proceedings"), Undef),
    Presentation(JsTrue, Undef, PlainTalk,
                 JsStr("international_conference_proceedings"), Undef),
    Presentation(Undef, Undef, ExpectedTalk, Undef, JsStr("false")) }

RunPaperItems ==
  { EmptyPaper,
    Paper(JsStr("scientific_journal"), JsTrue, Undef, Undef, VenueJournal),
    Paper(JsStr("scientific_journal"), JsFalse, JsTrue, Undef, VenueJournal) }

Answer(list) == [ok |-> TRUE, data |-> JsObj([items |-> JsArr(list)])]

HttpError == [ok |-> FALSE, data |-> Undef]

\* an answer of status 200 that holds no items array
NoItems == [ok |-> TRUE, data |-> JsObj([message |-> JsStr("maintenance")])]

Envs ==
  LET papers == { Answer(l) : l \in SeqsUpTo(RunPaperItems, MaxPapers) }
      talks == { Answer(l) : l \in SeqsUpTo(CorePresentationItems, MaxPapers) }
      onePaper == Answer(<<EmptyPaper>>)
      oneTalk == { Answer(<<x>>) : x \in PresentationItems }
  IN { [permalink |-> "read0134502", published_papers |-> a, presentations |-> b] :
         a \in papers \cup {HttpError, NoItems}, b \in talks \cup {HttpError, NoItems} }
     \cup { [permalink |-> "read0134502", published_papers |-> onePaper, presentations |-> b] :
              b \in oneTalk }
     \cup { [permalink |-> "", published_papers |-> onePaper, presentations |-> b] :
              b \in { Answer(<<>>), HttpError } }

InitRun ==
  /\ pc = "start"
  /\ env \in Envs
  /\ allPresentations = <<>>
  /\ invitedRaw = <<>>
  /\ oralInternationalRaw = <<>>
  /\ oralDomesticRaw = <<>>
  /\ files = <<>>
  /\ exitStatus = "running"
  /\ failure = "none"
  /\ allPapers = <<>>
  /\ bookRaw = <<>>
  /\ reviewRaw = <<>>
  /\ journalRaw = <<>>
  /\ confRaw = <<>>
  /\ counts = NoCounts
  /\ IdlePure
  /\ IdleReport
  /\ IdleText

paperBuckets == <<bookRaw, reviewRaw, journalRaw, confRaw>>
talkBuckets == <<invitedRaw, oralInternationalRaw, oralDomesticRaw>>
idleVars == <<pureVars, reportVars, textVars>>

\* main, lines 772-775: Promise.all of the two fetches
RunFetch ==
  /\ pc = "start"
  /\ \E papers \in {fetchAllCategory(env, "published_papers")},
        talks \in {fetchAllCategory(env, "presentations")} :
       IF IsThrown(papers) \/ IsThrown(talks)
       THEN /\ pc' = "rejected"
            /\ failure' = "Error"
            /\ UNCHANGED <<allPapers, allPresentations>>
       ELSE /\ pc' = "fetched"
            /\ allPapers' = papers.a
            /\ allPresentations' = talks.a
            /\ UNCHANGED failure
  /\ UNCHANGED <<env, paperBuckets, talkBuckets, counts, files, exitStatus, idleVars>>

\* main, lines 777-807: the buckets and the numbered lists
RunBuild ==
  /\ pc = "fetched"
  /\ IF ClassifyThrows(allPapers)
     THEN /\ pc' = "rejected"
          /\ failure' = "TypeError"
          /\ UNCHANGED <<paperBuckets, talkBuckets>>
     ELSE /\ pc' = "built"
          /\ bookRaw' = SelectSeq(Indices(allPapers), LAMBDA i : InBook(allPapers, i))
          /\ reviewRaw' = SelectSeq(Indices(allPapers), LAMBDA i : InReview(allPapers, i))
          /\ journalRaw' = SelectSeq(Indices(allPapers), LAMBDA i : InJournal(allPapers, i))
          /\ confRaw' = SelectSeq(Indices(allPapers), LAMBDA i : InConf(allPapers, i))
          /\ invitedRaw' =
               SelectSeq(Indices(allPresentations), LAMBDA i : InInvited(allPresentations, i))
          /\ oralInternationalRaw' =
               SelectSeq(Indices(allPresentations),
                         LAMBDA i : InOralInternational(allPresentations, i))
          /\ oralDomesticRaw' =
               SelectSeq(Indices(allPresentations),
                         LAMBDA i : InOralDomestic(allPresentations, i))
          /\ UNCHANGED failure
  /\ UNCHANGED <<env, allPapers, allPresentations, counts, files, exitStatus, idleVars>>

\* main, lines 809-824
RunCount ==
  /\ pc = "built"
  /\ counts' =
       [permalink |-> env.permalink,
        journal_paper_count |-> Len(journal),
        conference_paper_count |-> Len(conf),
        book_chapter_count |-> Len(book),
        review_article_count |-> Len(review),
        presentations_domestic_count |-> Len(presDomestic),
        presentations_international_count |-> Len(presInternational),
        presentations_count |-> Len(presDomestic) + Len(presInternational),
        invited_presentations_count |-> Len(invited),
        papers_total |-> Len(journal) + Len(conf) + Len(book) + Len(review),
        unclassified_count |->
          Len(allPapers) - Len(journalRaw) - Len(confRaw) - Len(bookRaw) - Len(reviewRaw)]
  /\ pc' = "counted"
  /\ UNCHANGED <<env, failure, allPapers, allPresentations, paperBuckets, talkBuckets,
                 files, exitStatus, idleVars>>

\* main, lines 826-827
RunWriteCounts ==
  /\ pc = "counted"
  /\ files' = Append(files, [name |-> "counts.json", content |-> counts])
  /\ pc' = "writing"
  /\ UNCHANGED <<env, failure, allPapers, allPresentations, paperBuckets, talkBuckets,
                 counts, exitStatus, idleVars>>

\* main, lines 836-917: the next of the seven pages
RunWritePage ==
  /\ pc = "writing"
  /\ \E name \in {PageOrder[Len(files)]} :
       files' = Append(files, [name |-> name, content |-> htmlPage(PageItems(name))])
  /\ pc' = IF Len(files) = Len(PageOrder) THEN "written" ELSE "writing"
  /\ UNCHANGED <<env, failure, allPapers, allPresentations, paperBuckets, talkBuckets,
                 counts, exitStatus, idleVars>>

\* main, lines 919-930: the last line of the log reads pres.length, and no
\* pres is declared anywhere in the script
RunLog ==
  /\ pc = "written"
  /\ pc' = "rejected"
  /\ failure' = "ReferenceError"
  /\ UNCHANGED <<env, allPapers, allPresentations, paperBuckets, talkBuckets,
                 counts, files, exitStatus, idleVars>>

\* main().catch, lines 933-937
RunCatch ==
  /\ pc = "rejected"
  /\ exitStatus' = "1"
  /\ pc' = "exited"
  /\ UNCHANGED <<env, failure, allPapers, allPresentations, paperBuckets, talkBuckets,
                 counts, files, idleVars>>

NextRun ==
  RunFetch \/ RunBuild \/ RunCount \/ RunWriteCounts \/ RunWritePage \/ RunLog \/ RunCatch

SpecRun == InitRun /\ [][NextRun]_vars

\* Node waits until the two fetches have settled, and runs the handler of a
\* rejected main
SpecRunFair == SpecRun /\ WF_vars(RunFetch) /\ WF_vars(RunCatch)

FetchFails ==
  env.permalink = "" \/ ~env.published_papers.ok \/ ~env.presentations.ok

\* C24: when the fetch of either category fails, no output file is written
\* and the run ends with exit status 1; no file is written before both
\* fetches have succeeded.
C24_NoOutputWhenFetchFails ==
  /\ [](FetchFails => files = <<>> /\ pc \in {"start", "rejected", "exited"})
  /\ [](files # <<>> => ~FetchFails /\ pc \notin {"start", "fetched", "built"})
  /\ (FetchFails ~> (exitStatus = "1" /\ files = <<>>))

C24_Witness ==
  /\ env.permalink # ""
  /\ env.published_papers.ok
  /\ fetchAllCategory(env, "published_papers") # Thrown
  /\ Len(fetchAllCategory(env, "published_papers").a) = MaxPapers
  /\ ~env.presentations.ok
  /\ exitStatus = "1"
  /\ failure = "Error"
  /\ files = <<>>

\* C25: a run is all or nothing: a run whose two fetches succeed throws
\* nothing, and a run that ends in the failure handler has written no file.
C25_AllOrNothing ==
  /\ ~FetchFails => failure = "none"
  /\ exitStatus = "1" => files = <<>>

Built == pc \in {"built", "counted", "writing", "written"}

TalkBucketsOf(i) ==
  { b \in {"invited", "international", "domestic"} :
      \/ b = "invited" /\ i \in Range(invitedRaw)
      \/ b = "international" /\ i \in Range(oralInternationalRaw)
      \/ b = "domestic" /\ i \in Range(oralDomesticRaw) }

\* the texts of a presentation record
FreeTexts(item) ==
  { JsString(OptMember(item, name)) :
      name \in {"presentation_type", "title", "note", "invited_talk"} }

\* an invited flag that is set, or a text that says invited
InvitedSignal(item) ==
  \/ ToBoolean(OptMember(item, "invited"))
  \/ OptMember(item, "invited_talk") \notin {Undef, JsFalse, JsStr("false")}
  \/ \E t \in FreeTexts(item) : Includes(ToLowerCase(t), "invited")

InvitedKeyword(item) == \E t \in FreeTexts(item) : Includes(t, Sho \o Tai)

\* C26: every presentation is in exactly one of the lists invited, oral
\* international, oral domestic; a record with the invited flag or an invited
\* presentation type is invited whatever its type, the others are split by
\* the international type; a record with no invited signal and without the
\* keyword is not invited; the three sizes add up to the fetched number.
C26_PresentationInOneList ==
  Built =>
    /\ \A i \in 1..Len(allPresentations) :
         LET item == allPresentations[i]
         IN /\ Cardinality(TalkBucketsOf(i)) = 1
            /\ (OptMember(item, "invited") = JsTrue
                  \/ Includes(ToLowerCase(JsString(OptMember(item, "presentation_type"))),
                              "invited"))
                 => TalkBucketsOf(i) = {"invited"}
            /\ TalkBucketsOf(i) # {"invited"}
                 => (TalkBucketsOf(i) = {"international"}
                       <=> OptMember(item, "published_paper_type")
                             = JsStr("international_conference_proceedings"))
            /\ (~InvitedSignal(item) /\ ~InvitedKeyword(item))
                 => TalkBucketsOf(i) # {"invited"}
    /\ Len(invitedRaw) + Len(oralInternationalRaw) + Len(oralDomesticRaw)
         = Len(allPresentations)

Counted == pc \in {"counted", "writing", "written"}

\* C27: the written counts add up: the four paper counts and
\* unclassified_count give the number of fetched papers, unclassified_count
\* is not negative, papers_total is the sum of the four paper counts, and
\* presentations_count with invited_presentations_count gives the number of
\* fetched presentations; counts.json holds these counts.
C27_CountsConserved ==
  /\ Counted =>
       /\ counts.journal_paper_count + counts.conference_paper_count
            + counts.book_chapter_count + counts.review_article_count
            + counts.unclassified_count = Len(allPapers)
       /\ counts.unclassified_count >= 0
       /\ counts.papers_total =
            counts.journal_paper_count + counts.conference_paper_count
              + counts.book_chapter_count + counts.review_article_count
       /\ counts.presentations_count + counts.invited_presentations_count
            = Len(allPresentations)
  /\ files # <<>> => files[1] = [name |-> "counts.json", content |-> counts]

C27_Witness ==
  /\ pc = "written"
  /\ Len(allPapers) = MaxPapers
  /\ Len(allPresentations) = MaxPapers
  /\ counts.unclassified_count = 1
  /\ counts.papers_total = MaxPapers - 1
  /\ counts.invited_presentations_count = 1
  /\ counts.presentations_count = MaxPapers - 1
  /\ files[1].content = counts

\* ------------------------------------------------------------------------
\* part_002: the numbered list of buildJournalHtml
\* ------------------------------------------------------------------------
\* the distinct elements of a list, in the order of their first occurrence
DistinctInOrder(s) ==
  LET firstAt(i) == \A j \in 1..(i - 1) : s[j] # s[i]
      idx == SelectSeq([i \in 1..Len(s) |-> i], firstAt)
  IN [n \in 1..Len(idx) |-> s[idx[n]]]

P2_toYear(item) ==
  LET cands == [i \in 1..10 |->
                  P2_pickLangText(OptMember(item,
                    <<"year", "published_year", "publication_year", "rm:published_year",
                      "rm:publication_year", "published_at", "publication_date", "date",
                      "issued", "issued_date">>[i]))]
      hits == SelectSeq(cands, HasYear)
  IN IF hits = <<>> THEN "----" ELSE YearIn(hits[1])

P2_toTitle(item) ==
  P2_firstNonEmpty(<<OptMember(item, "title"), OptMember(item, "paper_title"),
                     OptMember(item, "rm:title")>>)

\* where /(19|20)\d{2}[-/](\d{1,2})(?:[-/](\d{1,2}))?/ matches at i
P2_DateAt(s, i) ==
  /\ IsYearAt(s, i)
  /\ i + 5 <= Len(s)
  /\ CharIn(CharAt(s, i + 4), "-/")
  /\ CharIn(CharAt(s, i + 5), Digits)

\* the length of \d{1,2} at i, where a digit stands
DigitRun(s, i) == IF i + 1 <= Len(s) /\ CharIn(CharAt(s, i + 1), Digits) THEN 2 ELSE 1

\* month and day of itemKey
P2_MonthDay(dateStr) ==
  IF ~\E i \in 1..Len(dateStr) : P2_DateAt(dateStr, i) THEN [m |-> 0, d |-> 0]
  ELSE LET i == CHOOSE j \in 1..Len(dateStr) :
                  P2_DateAt(dateStr, j) /\ \A h \in 1..(j - 1) : ~P2_DateAt(dateStr, h)
           ml == DigitRun(dateStr, i + 5)
           p == i + 5 + ml
           hasDay == /\ p + 1 <= Len(dateStr)
                     /\ CharIn(CharAt(dateStr, p), "-/")
                     /\ CharIn(CharAt(dateStr, p + 1), Digits)
       IN [m |-> DigitsToNumber(SubSeq(dateStr, i + 5, i + 4 + ml)),
           d |-> IF hasDay
                 THEN DigitsToNumber(SubSeq(dateStr, p + 1, p + DigitRun(dateStr, p + 1)))
                 ELSE 0]

P2_itemKey(it) ==
  LET yStr == P2_toYear(it)
      dateStr == P2_firstNonEmpty(
                   <<OptMember(it, "publication_date"), OptMember(it, "published_date"),
                     OptMember(it, "published_at"), OptMember(it, "date"),
                     OptMember(it, "issued"), OptMember(it, "issued_date"),
                     OptMember(it, "rm:publication_date"), OptMember(it, "rm:published_date"),
                     OptMember(it, "created_at"), OptMember(it, "updated_at")>>)
      md == P2_MonthDay(dateStr)
  IN [y |-> IF yStr = "----" THEN 0 ELSE DigitsToNumber(yStr),
      m |-> md.m, d |-> md.d,
      title |-> ToLowerCase(P2_toTitle(it)),
      id |-> RecordId(it)]

\* the UTF-16 order of the characters of the titles and ids
CodeUnits == Digits \o UpperLetters \o LowerLetters

CodeOf(c) == CHOOSE i \in 1..Len(CodeUnits) : CharAt(CodeUnits, i) = c

RECURSIVE StringLess(_, _)
\* a < b of two strings
StringLess(a, b) ==
  IF b = "" THEN FALSE
  ELSE IF a = "" THEN TRUE
  ELSE IF CharAt(a, 1) # CharAt(b, 1) THEN CodeOf(CharAt(a, 1)) < CodeOf(CharAt(b, 1))
  ELSE StringLess(SubSeq(a, 2, Len(a)), SubSeq(b, 2, Len(b)))

cmpKeyAsc(a, b) ==
  IF a.y # b.y THEN a.y - b.y
  ELSE IF a.m # b.m THEN a.m - b.m
  ELSE IF a.d # b.d THEN a.d - b.d
  ELSE IF a.title # b.title THEN (IF StringLess(a.title, b.title) THEN -1 ELSE 1)
  ELSE IF a.id # b.id THEN (IF StringLess(a.id, b.id) THEN -1 ELSE 1)
  ELSE 0

cmpKeyDesc(a, b) == 0 - cmpKeyAsc(a, b)

\* String(it?.["rm:id"] || it?.id || `${toYear(it)}|${toTitle(it)}`)
P2_numKey(it) ==
  JsString(JsOr(OptMember(it, "rm:id"),
             JsOr(OptMember(it, "id"), JsStr(P2_toYear(it) \o "|" \o P2_toTitle(it)))))

\* the rows of flat, and what the page shows of each item
P2_rows(items) ==
  [i \in 1..Len(items) |->
     [year |-> P2_toYear(items[i]), k |-> P2_itemKey(items[i]),
      key |-> P2_numKey(items[i]), title |-> P2_toTitle(items[i])]]

\* the keys of numMap in the order of their serial numbers
P2_numMap(rows) ==
  LET keys(flat) == [n \in 1..Len(flat) |-> flat[n].key]
  IN WithValue(DistinctInOrder,
               WithValue(keys, StableSort(rows, LAMBDA a, b : cmpKeyAsc(a.k, b.k))) \o <<>>)

\* numMap.get(key) ?? 0
P2_numOf(numMap, key) ==
  IF \E n \in 1..Len(numMap) : numMap[n] = key
  THEN CHOOSE n \in 1..Len(numMap) : numMap[n] = key
  ELSE 0

P2_yearOrder(a, b) ==
  IF a = "----" THEN 1
  ELSE IF b = "----" THEN -1
  ELSE DigitsToNumber(b) - DigitsToNumber(a)

\* the years of byYear, sorted for display
P2_years(rows) ==
  StableSort(DistinctInOrder([i \in 1..Len(rows) |-> rows[i].year]), P2_yearOrder)

\* the entries of the page from top to bottom, each with the number shown
P2_numberedEntries(rows) ==
  LET block(y) == StableSort(SelectSeq(rows, LAMBDA r : r.year = y),
                             LAMBDA a, b : cmpKeyDesc(a.k, b.k))
      shown(r, numMap) == [n |-> P2_numOf(numMap, r.key), year |-> r.year, title |-> r.title]
      page(numMap) ==
        WithValue(LAMBDA years :
                    Flatten([n \in 1..Len(years) |->
                               WithValue(LAMBDA rs : [i \in 1..Len(rs) |-> shown(rs[i], numMap)],
                                         block(years[n]))]),
                  P2_years(rows))
  IN WithValue(page, P2_numMap(rows))

buildJournalHtml(items) == WithValue(P2_numberedEntries, P2_rows(items) \o <<>>)

JournalItems ==
  { JsObj(("rm:id" :> i) @@ [year |-> y, publication_date |-> d, title |-> t]) :
      i \in { Undef, JsStr("1") },
      y \in { Undef, JsStr("2019") },
      d \in { Undef, JsStr("2021-04-01"), JsStr("2021/12/24") },
      t \in { JsStr("A"), JsStr("b") } }

JournalLists == UNION { [1..n -> JournalItems] : n \in 0..MaxRecords }

InitJournalHtml ==
  /\ pc = "start"
  /\ arg \in { [items |-> l] : l \in JournalLists }
  /\ out = Undef
  /\ IdleMain
  /\ IdlePure
  /\ IdleReport

ApplyBuildJournalHtml ==
  /\ pc = "start"
  /\ out' = buildJournalHtml(arg.items)
  /\ pc' = "done"
  /\ UNCHANGED <<arg, mainVars, pureVars, reportVars>>

NextJournalHtml == ApplyBuildJournalHtml

SpecJournalHtml == InitJournalHtml /\ [][NextJournalHtml]_vars

\* C29: the N items of the page show the numbers 1..N, each once, and none
\* shows 0.
C29_OwnNumberForEveryItem ==
  pc = "done" =>
    /\ Len(out) = Len(arg.items)
    /\ \A k \in 1..Len(arg.items) : Cardinality({ i \in 1..Len(out) : out[i].n = k }) = 1
    /\ \A i \in 1..Len(out) : out[i].n # 0

\* ------------------------------------------------------------------------
\* scripts/update_counts.js: the pages of a cite line (buildPaperCiteLine)
\* ------------------------------------------------------------------------
\* const pages = normalizePages(p.pages), of a numbered record p whose pages
\* are those of pickPages
CitedPages(pages) == normalizePages(pages)

ApplyBuildPaperCiteLine ==
  /\ pc = "done"
  /\ out' = [pages |-> out, cited |-> CitedPages(out)]
  /\ pc' = "cited"
  /\ UNCHANGED <<arg, mainVars, pureVars, reportVars>>

NextCite == ApplyPickPages \/ ApplyBuildPaperCiteLine

SpecCite == InitPages /\ [][NextCite]_vars

\* C30: normalizing the pages a second time changes nothing.
C30_NormalizePagesIdempotent ==
  pc = "cited" => out.cited = out.pages

====
